---- MODULE Spec2Model ----
(***************************************************************************)
(* Ranked matchmaking, challenge and rating settlement of the cricket bot  *)
(* (src/bb.py).                                                            *)
(*                                                                         *)
(* Concurrency model.  The bot is one asyncio event loop.  Update handlers *)
(* (/ranked, /cancel_queue, the challenge buttons, the ball handlers that  *)
(* end a game) are dispatched one at a time: main() builds the Application *)
(* without concurrent updates (bb.py 10758-10766), so a handler runs to    *)
(* completion, its sleeps included, before the next update is taken.       *)
(* Tasks made with asyncio.create_task (update_search_message,             *)
(* periodic_matchmaking_check, challenge_timeout_task, cleanup_old_games)  *)
(* interleave with the running handler and with each other at every await  *)
(* that really suspends.  An await of a coroutine that never suspends      *)
(* (remove_from_ranked_queue, find_ranked_opponent, is_player_available,   *)
(* the synchronous database calls) is not a scheduling point, so the code  *)
(* between two suspending awaits is one atomic step here.                  *)
(***************************************************************************)
EXTENDS Integers, Sequences, FiniteSets, TLC

\* ---------------------------------------------------------------- bounds
NumPlayers == 3
MaxJoins == 3
MaxRuns == 1
MaxChallenges == 2
MaxCasual == 1
MaxFindPlayers == 4

\* ------------------------------------------------------ program constants
RANKED_SEARCH_TIMEOUT == 120
RANKED_RATING_RANGE == 200
STALE_QUEUE_AGE == 300
MIN_TRUST_SCORE == 30
SUSPEND_TRUST_SCORE == 10
SUSPICIOUS_OPPONENT_FREQUENCY == 5
WIN_TRADING_CONSECUTIVE_THRESHOLD == 3

Players == 1..NumPlayers
NoPlayer == 0
GroupChat == 0
\* /ranked is sent from the player's private chat (chat id = user id) or
\* from the group chat.
ChatsOf(p) == {p, GroupChat}
JoinIds == 1..MaxJoins
ChallengeIds == 1..MaxChallenges

\* Seconds an entry has waited (time.time() - joined_at), kept at the points
\* where the code's comparisons change: >= 120 (timeout) and > 300 (stale).
ElapsedPoints == <<0, 119, 120, 300, 301>>
NextElapsed(e) ==
  IF e = 0 THEN 119 ELSE IF e = 119 THEN 120 ELSE IF e = 120 THEN 300 ELSE 301

VARIABLES
  ranked_queue,        \* set of queue entries (the dict's items)
  queue_search_tasks,  \* players with a registered update_search_message task
  user_queue_cooldown, \* players with a queue-join time stamp
  games,               \* set of active games (the dict's items)
  elapsed,             \* per player: seconds the current entry has waited
  joinSeq,             \* number of entries created so far (orders joined_at)
  searchTask,          \* per player: state of the update_search_message task
  periodic,            \* per join id: the periodic_matchmaking_check task
  handler,             \* the update handler being run (one at a time)
  qstate,              \* per player: lifecycle of the queue flow, as told to them
  lastCreate,          \* outcome of the latest create_ranked_match call
  career,              \* per player: the career_stats row
  ranked_matches,      \* the ranked_matches table, in insertion order
  match_history_detailed, \* the match_history_detailed table, in insertion order
  suspicious_activities,  \* the suspicious_activities table
  settled,             \* the latest handle_game_end run: its inputs, the
                       \* tables before and after it
  pending_challenges,  \* the pending_challenges table (a set of rows)
  chSeq,               \* number of challenges issued so far
  timeoutTask,         \* per challenge: state of its challenge_timeout_task
  chExpired,           \* challenges with datetime.now() > expires_at
  chLog,               \* per challenge: the status changes and games made
  pressed,             \* the latest button press and how it was answered
  challenge_cooldowns, \* the challenge_cooldowns table: the pairs
                       \* <<challenger_id, target_id>> with expires_at > NOW()
  match_patterns,      \* the match_patterns table (a set of rows)
  ret                  \* the queue function just called directly, its result

mmVars == <<ranked_queue, queue_search_tasks, user_queue_cooldown, games,
            elapsed, joinSeq, searchTask, periodic, handler, qstate,
            lastCreate>>

\* The database tables, and the record of the latest settlement.
tables == <<ranked_matches, match_history_detailed, suspicious_activities,
            settled, challenge_cooldowns, match_patterns>>
\* The challenge flow.
chVars == <<pending_challenges, chSeq, timeoutTask, chExpired, chLog, pressed>>
dbVars == <<career, tables, chVars>>

\* What the matchmaking steps leave alone.
nonMM == <<career, tables, chVars, ret>>

vars == <<mmVars, career, tables, chVars, ret>>

\* ----------------------------------------------------------- career data
\* Stored rating and tier of a player when /ranked reads career_stats.
get_rank_from_rating(rating) ==
  IF rating < 0 THEN "Unranked"
  ELSE IF rating < 200 THEN "Bronze I"
  ELSE IF rating < 400 THEN "Bronze II"
  ELSE IF rating < 600 THEN "Bronze III"
  ELSE IF rating < 800 THEN "Silver I"
  ELSE IF rating < 1000 THEN "Silver II"
  ELSE IF rating < 1200 THEN "Silver III"
  ELSE IF rating < 1400 THEN "Gold I"
  ELSE IF rating < 1600 THEN "Gold II"
  ELSE IF rating < 1800 THEN "Gold III"
  ELSE IF rating < 2000 THEN "Platinum I"
  ELSE IF rating < 2200 THEN "Platinum II"
  ELSE IF rating < 2400 THEN "Platinum III"
  ELSE IF rating < 2600 THEN "Diamond I"
  ELSE IF rating < 2800 THEN "Diamond II"
  ELSE IF rating < 3000 THEN "Diamond III"
  ELSE IF rating < 3300 THEN "Master I"
  ELSE IF rating < 3600 THEN "Master II"
  ELSE IF rating < 4000 THEN "Master III"
  ELSE IF rating < 4400 THEN "Grandmaster I"
  ELSE IF rating < 4800 THEN "Grandmaster II"
  ELSE IF rating < 5200 THEN "Grandmaster III"
  ELSE IF rating < 5600 THEN "Immortal I"
  ELSE IF rating < 6000 THEN "Immortal II"
  ELSE "Immortal III"

\* The emoji that get_rank_tier puts before a tier name, written by name.
TierEmoji ==
  [Bronze |-> ":3rd_place_medal:", Silver |-> ":2nd_place_medal:",
   Gold |-> ":1st_place_medal:", Platinum |-> ":gem:",
   Diamond |-> ":diamond_with_a_dot:", Master |-> ":fleur_de_lis:",
   Grandmaster |-> ":crown:", Immortal |-> ":fire:"]

\* The table of the admin and career functions: emoji-prefixed names, no
\* "Unranked" below 0, a single "Immortal" from 5200.
get_rank_tier(rating) ==
  IF rating < 200 THEN TierEmoji.Bronze \o " Bronze I"
  ELSE IF rating < 400 THEN TierEmoji.Bronze \o " Bronze II"
  ELSE IF rating < 600 THEN TierEmoji.Bronze \o " Bronze III"
  ELSE IF rating < 800 THEN TierEmoji.Silver \o " Silver I"
  ELSE IF rating < 1000 THEN TierEmoji.Silver \o " Silver II"
  ELSE IF rating < 1200 THEN TierEmoji.Silver \o " Silver III"
  ELSE IF rating < 1400 THEN TierEmoji.Gold \o " Gold I"
  ELSE IF rating < 1600 THEN TierEmoji.Gold \o " Gold II"
  ELSE IF rating < 1800 THEN TierEmoji.Gold \o " Gold III"
  ELSE IF rating < 2000 THEN TierEmoji.Platinum \o " Platinum I"
  ELSE IF rating < 2200 THEN TierEmoji.Platinum \o " Platinum II"
  ELSE IF rating < 2400 THEN TierEmoji.Platinum \o " Platinum III"
  ELSE IF rating < 2600 THEN TierEmoji.Diamond \o " Diamond I"
  ELSE IF rating < 2800 THEN TierEmoji.Diamond \o " Diamond II"
  ELSE IF rating < 3000 THEN TierEmoji.Diamond \o " Diamond III"
  ELSE IF rating < 3300 THEN TierEmoji.Master \o " Master I"
  ELSE IF rating < 3600 THEN TierEmoji.Master \o " Master II"
  ELSE IF rating < 4000 THEN TierEmoji.Master \o " Master III"
  ELSE IF rating < 4400 THEN TierEmoji.Grandmaster \o " Grandmaster I"
  ELSE IF rating < 4800 THEN TierEmoji.Grandmaster \o " Grandmaster II"
  ELSE IF rating < 5200 THEN TierEmoji.Grandmaster \o " Grandmaster III"
  ELSE TierEmoji.Immortal \o " Immortal"

\* ------------------------------------------------------------- the queue
InQueue(q, u) == \E e \in q : e.user_id = u
QEntry(q, u) == CHOOSE e \in q : e.user_id = u
\* ranked_queue[user_id] = {...}: a dict assignment replaces the key's item.
DictAssign(q, e) == {x \in q : x.user_id # e.user_id} \cup {e}
DictDel(q, u) == {x \in q : x.user_id # u}

PlayerInGame(g, u) == \E x \in g : x.creator = u \/ x.joiner = u
KeyInGames(g, k) == \E x \in g : x.key = k

\* The opponent dict returned by find_ranked_opponent / the player dicts
\* handed to create_ranked_match.
Snapshot(u, r, t, m) == [user_id |-> u, rating |-> r, rank_tier |-> t, message |-> m]
NoOpp == Snapshot(NoPlayer, 0, "", 0)
SnapshotOf(e) == Snapshot(e.user_id, e.rating, e.rank_tier, e.message)

\* check_challenge_cooldown: the remaining seconds of the row (1 stands for
\* any positive number), 0 without a row, and 0 as well when no connection
\* is to be had or the query fails (dbOk false).
check_challenge_cooldown(challenger_id, target_id, dbOk) ==
  IF dbOk /\ <<challenger_id, target_id>> \in challenge_cooldowns THEN 1 ELSE 0

\* The entries find_ranked_opponent does not skip.
Eligible(q, g, user_id, user_rating, dbOk) ==
  {e \in q : /\ e.user_id # user_id
             /\ ~PlayerInGame(g, e.user_id)
             /\ check_challenge_cooldown(user_id, e.user_id, dbOk) = 0
             /\ check_challenge_cooldown(e.user_id, user_id, dbOk) = 0
             /\ user_rating - RANKED_RATING_RANGE <= e.rating
             /\ e.rating <= user_rating + RANKED_RATING_RANGE}

\* Variant of the search below that returns the eligible entry nearest in
\* rating instead of the one that joined first.
FindClosest(q, g, user_id, user_rating, dbOk) ==
  LET c == Eligible(q, g, user_id, user_rating, dbOk)
      dist(e) == IF e.rating >= user_rating THEN e.rating - user_rating
                 ELSE user_rating - e.rating
  IN IF c = {} THEN NoOpp
     ELSE SnapshotOf(CHOOSE e \in c : \A x \in c :
                       \/ dist(e) < dist(x)
                       \/ dist(e) = dist(x) /\ e.joined_at <= x.joined_at)

\* First eligible entry in joined_at order, as a snapshot; NoOpp if none.
find_ranked_opponent(q, g, user_id, user_rating, dbOk) ==
  LET c == Eligible(q, g, user_id, user_rating, dbOk)
  IN IF c = {} THEN NoOpp
     ELSE SnapshotOf(CHOOSE e \in c : \A x \in c : e.joined_at <= x.joined_at)

\* create_ranked_match's first loop: either player already in some game.
CreateBlocked(g, p1, p2) == PlayerInGame(g, p1) \/ PlayerInGame(g, p2)

RankedGame(chat_id, p1, p2, racing) ==
  [key |-> chat_id, chat_id |-> chat_id, creator |-> p1.user_id,
   joiner |-> p2.user_id, ranked_match |-> TRUE,
   player1_rating |-> p1.rating, player2_rating |-> p2.rating,
   racing |-> racing, ended |-> FALSE]

\* ------------------------------------------------------------------ Init
InitRating(p) == 800 + 200 * p
\* A career_stats row as get_career_stats returns it.
\* No statement of the program writes total_ranked_matches; the readers
\* default it to 0.
CareerRow(r) ==
  [exists |-> TRUE, rating |-> r, rank_tier |-> get_rank_from_rating(r),
   trust_score |-> 50, rating_suspended |-> FALSE, total_matches |-> 0,
   total_ranked_matches |-> 0, wins |-> 0, losses |-> 0,
   current_streak |-> 0, highest_rating |-> r]
\* A player without a career_stats row.
NoRow == [CareerRow(0) EXCEPT !.exists = FALSE]
\* get_career_stats: a missing row is inserted with rating 1000 and
\* 'Silver III', and committed, before it is returned.
InsertedRow == [CareerRow(1000) EXCEPT !.rank_tier = "Silver III"]
WithRow(c, u) == IF c[u].exists THEN c ELSE [c EXCEPT ![u] = InsertedRow]
get_career_stats(c, u) == WithRow(c, u)[u]

NoCreate == [result |-> "none", p1 |-> NoPlayer, p2 |-> NoPlayer]
NoRet == [op |-> "none", user |-> NoPlayer, result |-> FALSE, before |-> {}]
NoSettle ==
  [done |-> FALSE, creator |-> NoPlayer, joiner |-> NoPlayer, first |-> NoPlayer,
   target |-> 0, current_score |-> 0, db |-> "",
   k |-> <<0, 0>>, rating_change |-> <<0, 0>>,
   before |-> [career |-> <<>>, ranked_matches |-> <<>>,
               match_history_detailed |-> <<>>],
   after |-> [career |-> <<>>, ranked_matches |-> <<>>,
              match_history_detailed |-> <<>>]]
IdleHandler ==
  [op |-> "idle", pc |-> "", user |-> NoPlayer, chat |-> 0, me |-> NoOpp,
   opp |-> NoOpp, challenge |-> 0]
NoPress == [challenge |-> 0, op |-> "", user |-> NoPlayer, outcome |-> ""]
NoTask == [st |-> "none", user |-> NoPlayer, chat |-> 0, me |-> NoOpp, opp |-> NoOpp]

\* Everything but the queue, the games, the career rows and the cooldowns.
InitCommon ==
  /\ queue_search_tasks = {}
  /\ user_queue_cooldown = {}
  /\ elapsed = [p \in Players |-> 0]
  /\ joinSeq = 0
  /\ searchTask = [p \in Players |-> "none"]
  /\ periodic = [j \in JoinIds |-> NoTask]
  /\ handler = IdleHandler
  /\ qstate = [p \in Players |-> "NOT_QUEUED"]
  /\ lastCreate = NoCreate
  /\ ranked_matches = <<>>
  /\ match_history_detailed = <<>>
  /\ suspicious_activities = <<>>
  /\ settled = NoSettle
  /\ pending_challenges = {}
  /\ chSeq = 0
  /\ timeoutTask = [ch \in ChallengeIds |-> "none"]
  /\ chExpired = {}
  /\ chLog = [ch \in ChallengeIds |-> [writes |-> <<>>, games |-> 0]]
  /\ pressed = NoPress
  /\ ret = NoRet

Init ==
  /\ ranked_queue = {}
  /\ games = {}
  /\ career = [p \in Players |-> CareerRow(InitRating(p))]
  /\ challenge_cooldowns = {}
  /\ match_patterns = {}
  /\ InitCommon

\* -------------------------------------------------- queue primitives
\* remove_from_ranked_queue on the three structures it touches: the entry
\* goes, and a registered search task is cancelled and unregistered.
QueueWithout(q, us) == {x \in q : x.user_id \notin us}
TasksCancelled(st, reg, us) ==
  [p \in Players |-> IF p \in us /\ p \in reg THEN "none" ELSE st[p]]
ElapsedReset(el, us) == [p \in Players |-> IF p \in us THEN 0 ELSE el[p]]

DelayedTasks == {j \in JoinIds : periodic[j].st = "delay"}

\* What a player has been told about the queue flow once a match with them
\* exists: the first match after joining, a further match without joining
\* again, a match after they were told the search was cancelled or timed
\* out, or a match after their entry had gone in another way.
MatchedAs(prev, queued) ==
  IF queued \/ prev = "QUEUED" \/ prev = "QUEUED_ERROR" THEN "MATCHED"
  ELSE IF prev \in {"MATCHED", "REMATCHED"} THEN "REMATCHED"
  ELSE IF prev \in {"CANCELED", "TIMED_OUT"} THEN "MATCHED_AFTER_EXIT"
  ELSE "MATCHED_UNQUEUED"
\* A queue flow that ended without a text: the entry was deleted by the
\* staleness pass or by a create_ranked_match that then returned None.
SilentExit(prev, how) == IF prev = "QUEUED" THEN how ELSE "NOT_QUEUED"

\* create_ranked_match(p1, p2, chat_id): None if either player is in a game;
\* else both entries are removed, and then None if the chat already has a
\* game, else the game is made.
CreateResult(g, p1, p2, chat_id) ==
  IF CreateBlocked(g, p1, p2) THEN "in_game"
  ELSE IF KeyInGames(g, chat_id) THEN "key_exists"
  ELSE "created"

CreateCore(p1, p2, chat_id, racing) ==
  LET both == {p1.user_id, p2.user_id}
  IN IF CreateBlocked(games, p1.user_id, p2.user_id)
     THEN UNCHANGED <<ranked_queue, queue_search_tasks, searchTask, elapsed, games>>
     ELSE /\ ranked_queue' = QueueWithout(ranked_queue, both)
          /\ queue_search_tasks' = queue_search_tasks \ both
          /\ searchTask' = TasksCancelled(searchTask, queue_search_tasks, both)
          /\ elapsed' = ElapsedReset(elapsed, both)
          /\ games' = IF KeyInGames(games, chat_id) THEN games
                      ELSE games \cup {RankedGame(chat_id, p1, p2, racing)}

\* The call as a searcher makes it: on success the toss text goes into both
\* players' search messages.  On None the /ranked handler shows "Failed to
\* create ranked match", the periodic task nothing; neither is one of the
\* texts that close a queue flow.
CreateRankedMatch(p1, p2, chat_id, racing) ==
  LET both == {p1.user_id, p2.user_id}
      wasQueued == {u \in both : InQueue(ranked_queue, u)}
      res == CreateResult(games, p1.user_id, p2.user_id, chat_id)
  IN /\ CreateCore(p1, p2, chat_id, racing)
     /\ lastCreate' = [result |-> res, p1 |-> p1.user_id, p2 |-> p2.user_id]
     /\ qstate' = [p \in Players |->
                     IF p \notin both \/ res = "in_game" THEN qstate[p]
                     ELSE IF res = "created"
                     THEN MatchedAs(qstate[p], p \in wasQueued)
                     ELSE IF p \in wasQueued
                     THEN SilentExit(qstate[p], "DROPPED")
                     ELSE qstate[p]]

\* ------------------------------------------------------- /ranked handler
\* Variant of the test below that blocks nobody.
NeverTrustBlocked(stats) == FALSE
\* The trust test of ranked(); challenge() applies the same test to the
\* challenger's row.
TrustBlocked(stats) == stats.trust_score < SUSPEND_TRUST_SCORE

\* ranked(), up to the reply that posts the search message: the checks that
\* turn the command away, then the read of the caller's career row.
\* recent: whether the last queue join is less than QUEUE_JOIN_COOLDOWN ago.
RankedStart(p, c) ==
  /\ handler.op = "idle"
  /\ joinSeq < MaxJoins
  /\ \E recent \in BOOLEAN :
       LET stats == get_career_stats(career, p)
           refusal ==
             IF KeyInGames(games, c) THEN "in_game_error"
             ELSE IF InQueue(ranked_queue, p) THEN "already_searching"
             ELSE IF p \in user_queue_cooldown /\ recent THEN "cooldown"
             ELSE IF TrustBlocked(stats) THEN "trust_blocked"
             ELSE IF stats.rating_suspended THEN "suspended"
             ELSE "ok"
       IN /\ career' = IF refusal \in {"in_game_error", "already_searching",
                                       "cooldown"}
                        THEN career ELSE WithRow(career, p)
          /\ IF refusal # "ok"
             THEN UNCHANGED handler
             ELSE handler' =
                    [op |-> "ranked", pc |-> "joining", user |-> p,
                     chat |-> c,
                     me |-> Snapshot(p, stats.rating, stats.rank_tier, 0),
                     opp |-> NoOpp, challenge |-> 0]
  /\ UNCHANGED <<ranked_queue, queue_search_tasks, user_queue_cooldown, games,
                 elapsed, joinSeq, searchTask, periodic, qstate, lastCreate,
                 tables, chVars, ret>>

\* Variants of add_to_ranked_queue without its membership test: one appends
\* as a list would, one overwrites the dict item.
AddAppend(q, user_id, rating, rank_tier, seq) ==
  q \cup {[user_id |-> user_id, rating |-> rating, rank_tier |-> rank_tier,
           joined_at |-> seq, message |-> seq]}
AddOverwrite(q, user_id, rating, rank_tier, seq) ==
  DictAssign(q, [user_id |-> user_id, rating |-> rating,
                 rank_tier |-> rank_tier, joined_at |-> seq, message |-> seq])

\* add_to_ranked_queue: the in-memory insert happens before the database
\* upsert, so a failing upsert returns False with the entry in the dict.
\* dbOk: whether the upsert and its commit succeed.
AddToRankedQueue(q, user_id, rating, rank_tier, seq) ==
  IF InQueue(q, user_id) THEN q
  ELSE DictAssign(q, [user_id |-> user_id, rating |-> rating,
                      rank_tier |-> rank_tier, joined_at |-> seq,
                      message |-> seq])
AddReturns(q, user_id, dbOk) == ~InQueue(q, user_id) /\ dbOk

\* ranked(), from add_to_ranked_queue to the 3 second sleep or to the start
\* of the two search tasks.
RankedJoin ==
  /\ handler.op = "ranked" /\ handler.pc = "joining"
  /\ \E dbOk \in BOOLEAN :
       LET p == handler.user
           m == joinSeq + 1
           added == ~InQueue(ranked_queue, p)
           q2 == AddToRankedQueue(ranked_queue, p, handler.me.rating,
                                  handler.me.rank_tier, m)
           success == AddReturns(ranked_queue, p, dbOk)
           opp == find_ranked_opponent(q2, games, p, handler.me.rating, dbOk)
       IN /\ ranked_queue' = q2
          /\ joinSeq' = IF added THEN m ELSE joinSeq
          /\ elapsed' = IF added THEN [elapsed EXCEPT ![p] = 0] ELSE elapsed
          /\ qstate' = IF ~added THEN qstate
                        ELSE [qstate EXCEPT ![p] =
                                IF success THEN "QUEUED" ELSE "QUEUED_ERROR"]
          /\ IF ~success
             THEN /\ handler' = IdleHandler
                  /\ UNCHANGED <<user_queue_cooldown, queue_search_tasks,
                                 searchTask, periodic>>
             ELSE /\ user_queue_cooldown' = user_queue_cooldown \cup {p}
                  /\ IF opp # NoOpp
                     THEN /\ handler' = [handler EXCEPT
                                           !.pc = "delay",
                                           !.me = Snapshot(p, handler.me.rating,
                                                     handler.me.rank_tier, m),
                                           !.opp = opp]
                          /\ UNCHANGED <<queue_search_tasks, searchTask, periodic>>
                     ELSE /\ queue_search_tasks' = queue_search_tasks \cup {p}
                          /\ searchTask' = [searchTask EXCEPT ![p] = "init"]
                          /\ periodic' = [periodic EXCEPT ![m] =
                                            [st |-> "sleep", user |-> p,
                                             chat |-> handler.chat,
                                             me |-> NoOpp, opp |-> NoOpp]]
                          /\ handler' = IdleHandler
  /\ UNCHANGED <<games, lastCreate, nonMM>>

\* ranked(), after the sleep: create_ranked_match and the toss or error text.
RankedCreate ==
  /\ handler.op = "ranked" /\ handler.pc = "delay"
  /\ CreateRankedMatch(handler.me, handler.opp, handler.chat, DelayedTasks)
  /\ handler' = IdleHandler
  /\ UNCHANGED <<user_queue_cooldown, joinSeq, periodic, nonMM>>

\* cancel_queue().
CancelQueue(p) ==
  /\ handler.op = "idle"
  /\ IF ~InQueue(ranked_queue, p)
     THEN UNCHANGED <<ranked_queue, queue_search_tasks, searchTask, elapsed,
                      qstate>>
     ELSE /\ ranked_queue' = QueueWithout(ranked_queue, {p})
          /\ queue_search_tasks' = queue_search_tasks \ {p}
          /\ searchTask' = TasksCancelled(searchTask, queue_search_tasks, {p})
          /\ elapsed' = ElapsedReset(elapsed, {p})
          /\ qstate' = [qstate EXCEPT ![p] = "CANCELED"]
  /\ UNCHANGED <<user_queue_cooldown, games, joinSeq, periodic, handler,
                 lastCreate, nonMM>>

\* --------------------------------------------------------- search tasks
\* update_search_message, first step: start_time is read from the entry.
SearchStart(p) ==
  /\ searchTask[p] = "init"
  /\ searchTask' = [searchTask EXCEPT ![p] =
                      IF InQueue(ranked_queue, p) THEN "loop" ELSE "none"]
  /\ UNCHANGED <<ranked_queue, queue_search_tasks, user_queue_cooldown, games,
                 elapsed, joinSeq, periodic, handler, qstate, lastCreate, nonMM>>

\* Variant of the test below that lets the 120th second pass.
SearchTimedOutLate(elapsed_s) == elapsed_s > RANKED_SEARCH_TIMEOUT

\* update_search_message's test of elapsed = int(time.time() - start_time).
SearchTimedOut(elapsed_s) == elapsed_s >= RANKED_SEARCH_TIMEOUT

\* update_search_message, one turn of the loop.  At RANKED_SEARCH_TIMEOUT
\* handle_queue_timeout removes the entry and posts the timeout text (the
\* edit is interrupted by the task's own cancellation, the bare except then
\* sends it as a reply).  editOk: whether the progress edit succeeds or
\* fails with BadRequest; any other error ends the task and leaves the entry.
SearchTick(p) ==
  /\ searchTask[p] = "loop"
  /\ \E editOk \in BOOLEAN :
       IF ~InQueue(ranked_queue, p)
       THEN /\ searchTask' = [searchTask EXCEPT ![p] = "none"]
            /\ UNCHANGED <<ranked_queue, queue_search_tasks, elapsed, qstate>>
       ELSE IF SearchTimedOut(elapsed[p])
       THEN /\ ranked_queue' = QueueWithout(ranked_queue, {p})
            /\ queue_search_tasks' = queue_search_tasks \ {p}
            /\ searchTask' = [searchTask EXCEPT ![p] = "none"]
            /\ elapsed' = ElapsedReset(elapsed, {p})
            /\ qstate' = [qstate EXCEPT ![p] = "TIMED_OUT"]
       ELSE /\ searchTask' = [searchTask EXCEPT ![p] =
                                IF editOk THEN "loop" ELSE "none"]
            /\ UNCHANGED <<ranked_queue, queue_search_tasks, elapsed, qstate>>
  /\ UNCHANGED <<user_queue_cooldown, games, joinSeq, periodic, handler,
                 lastCreate, nonMM>>

\* periodic_matchmaking_check, waking from its 3 second sleep: leave if the
\* player is no longer queued, else search; on a hit announce it to both
\* players and start the 3 second delay.  editOk: whether the edit of the
\* searcher's own message succeeds; any error but "message is not modified"
\* ends the task.
PeriodicWake(j) ==
  /\ periodic[j].st = "sleep"
  /\ \E editOk \in BOOLEAN : \E dbOk \in BOOLEAN :
       LET u == periodic[j].user
       IN IF ~InQueue(ranked_queue, u)
          THEN periodic' = [periodic EXCEPT ![j] = NoTask]
          ELSE LET user_data == QEntry(ranked_queue, u)
                   opp == find_ranked_opponent(ranked_queue, games, u,
                                               user_data.rating, dbOk)
               IN IF opp = NoOpp
                  THEN UNCHANGED periodic
                  ELSE IF ~editOk
                  THEN periodic' = [periodic EXCEPT ![j] = NoTask]
                  ELSE periodic' = [periodic EXCEPT ![j] =
                                      [st |-> "delay", user |-> u,
                                       chat |-> periodic[j].chat,
                                       me |-> SnapshotOf(user_data),
                                       opp |-> opp]]
  /\ UNCHANGED <<ranked_queue, queue_search_tasks, user_queue_cooldown, games,
                 elapsed, joinSeq, searchTask, handler, qstate, lastCreate,
                 nonMM>>

\* periodic_matchmaking_check, after the delay: create_ranked_match, the toss
\* text on success, and the break that ends the task either way.
PeriodicCreate(j) ==
  /\ periodic[j].st = "delay"
  /\ CreateRankedMatch(periodic[j].me, periodic[j].opp, periodic[j].chat,
                       DelayedTasks \ {j})
  /\ periodic' = [periodic EXCEPT ![j] = NoTask]
  /\ UNCHANGED <<user_queue_cooldown, joinSeq, handler, nonMM>>

\* cleanup_old_games, one pass: entries older than 5 minutes are deleted and
\* their search tasks cancelled; nothing is sent to the player.  (Ranked
\* games carry no activity stamp the pass could age, and a join stamp it
\* drops after 10 minutes no longer blocks a join.)
\* A pass that looks only at entries whose search task is registered.
StaleWithTask == {u \in queue_search_tasks : InQueue(ranked_queue, u) /\ elapsed[u] > STALE_QUEUE_AGE}
StaleEntries == {e.user_id : e \in {x \in ranked_queue :
                                        elapsed[x.user_id] > STALE_QUEUE_AGE}}
CleanupPass ==
  /\ StaleEntries # {}
  /\ ranked_queue' = QueueWithout(ranked_queue, StaleEntries)
  /\ queue_search_tasks' = queue_search_tasks \ StaleEntries
  /\ searchTask' = TasksCancelled(searchTask, queue_search_tasks, StaleEntries)
  /\ elapsed' = ElapsedReset(elapsed, StaleEntries)
  /\ UNCHANGED <<user_queue_cooldown, games, joinSeq, periodic, handler,
                 lastCreate, dbVars>>
CleanupOldGames ==
  /\ CleanupPass
  /\ qstate' = [p \in Players |->
                  IF p \in StaleEntries THEN SilentExit(qstate[p], "SWEPT")
                  ELSE qstate[p]]
  /\ UNCHANGED ret

\* The pass an hour after a challenge game was created: the game carries
\* its creation time as 'last_activity', which nothing updates, and is
\* deleted; a 3-over game is over by then.  The queue is swept as in every
\* pass.
CleanupEndedGames ==
  /\ \E g \in games : g.ended
  /\ games' = {g \in games : ~g.ended}
  /\ ranked_queue' = QueueWithout(ranked_queue, StaleEntries)
  /\ queue_search_tasks' = queue_search_tasks \ StaleEntries
  /\ searchTask' = TasksCancelled(searchTask, queue_search_tasks, StaleEntries)
  /\ elapsed' = ElapsedReset(elapsed, StaleEntries)
  /\ qstate' = [p \in Players |->
                  IF p \in StaleEntries THEN SilentExit(qstate[p], "SWEPT")
                  ELSE qstate[p]]
  /\ UNCHANGED <<user_queue_cooldown, joinSeq, periodic, handler, lastCreate,
                 dbVars, ret>>

\* ------------------------------------------------------------------ time
\* The wait of p's entry grows to the next comparison point.  Entries age
\* together, so an entry never overtakes one that joined before it.  A live
\* update_search_message task looks at the clock every 5 seconds and evicts
\* at 120, so only an entry without one grows older than that; and the waits
\* of 119 and 180 seconds do not fit into a handler run, a 3 second delay or
\* the time a new task takes to be scheduled.
AdvanceStep(p) ==
  /\ InQueue(ranked_queue, p)
  /\ elapsed[p] <= STALE_QUEUE_AGE
  /\ LET n == NextElapsed(elapsed[p])
         mine == QEntry(ranked_queue, p)
     IN /\ \A x \in ranked_queue :
             x.joined_at < mine.joined_at => elapsed[x.user_id] >= n
        /\ n > RANKED_SEARCH_TIMEOUT => searchTask[p] = "none"
        /\ n # RANKED_SEARCH_TIMEOUT =>
             /\ handler.op = "idle" /\ DelayedTasks = {}
             /\ \A q \in Players : searchTask[q] # "init"
        /\ elapsed' = [elapsed EXCEPT ![p] = n]
  /\ UNCHANGED <<ranked_queue, queue_search_tasks, user_queue_cooldown, games,
                 joinSeq, searchTask, periodic, handler, lastCreate, dbVars>>
Advance(p) == AdvanceStep(p) /\ UNCHANGED <<qstate, ret>>

\* ------------------------------------------------------------ settlement
\* calculate_elo_change works on floats; here a score is a whole number of
\* 1/EloUnit parts, a unit in which the scores 1/2 (equal ratings) and 1/11
\* (400 points apart) are exact.  ExpectedTable[d + 1] is
\* 1 / (1 + 10 ** (d / 400)), the expected score against an opponent rated
\* d points higher, for d = 0 .. 560; with it the changes below equal the
\* code's int(k_factor * (actual - expected)) for every k_factor up to 48.
EloUnit == 1100000
ExpectedTable ==
  <<
    550000, 548417, 546834, 545251, 543668, 542085, 540503, 538920, 537338, 535756,
    534174, 532593, 531011, 529430, 527850, 526269, 524689, 523110, 521531, 519952,
    518374, 516797, 515220, 513643, 512068, 510492, 508918, 507344, 505771, 504199,
    502627, 501056, 499486, 497917, 496348, 494781, 493214, 491648, 490084, 488520,
    486957, 485395, 483835, 482275, 480717, 479159, 477603, 476048, 474494, 472942,
    471391, 469841, 468292, 466744, 465198, 463654, 462110, 460568, 459028, 457489,
    455951, 454415, 452881, 451348, 449817, 448287, 446759, 445233, 443708, 442185,
    440664, 439144, 437626, 436110, 434596, 433083, 431573, 430064, 428557, 427052,
    425549, 424049, 422549, 421052, 419557, 418065, 416574, 415085, 413598, 412113,
    410631, 409151, 407673, 406197, 404723, 403252, 401782, 400315, 398851, 397388,
    395929, 394471, 393016, 391563, 390112, 388664, 387219, 385776, 384335, 382897,
    381461, 380028, 378597, 377169, 375744, 374321, 372901, 371483, 370068, 368656,
    367247, 365840, 364436, 363034, 361635, 360239, 358846, 357456, 356068, 354683,
    353301, 351922, 350546, 349173, 347802, 346434, 345070, 343708, 342349, 340993,
    339640, 338290, 336943, 335599, 334258, 332920, 331586, 330254, 328925, 327599,
    326276, 324957, 323641, 322327, 321017, 319710, 318406, 317105, 315808, 314513,
    313222, 311934, 310649, 309367, 308089, 306814, 305542, 304273, 303008, 301746,
    300487, 299231, 297979, 296730, 295484, 294242, 293003, 291767, 290535, 289306,
    288080, 286858, 285639, 284423, 283211, 282002, 280797, 279594, 278396, 277201,
    276009, 274820, 273635, 272454, 271275, 270101, 268929, 267761, 266597, 265436,
    264278, 263124, 261974, 260827, 259683, 258543, 257406, 256273, 255143, 254016,
    252894, 251774, 250658, 249546, 248437, 247332, 246230, 245132, 244037, 242945,
    241857, 240773, 239692, 238615, 237541, 236471, 235404, 234340, 233281, 232224,
    231171, 230122, 229076, 228034, 226995, 225960, 224928, 223900, 222875, 221854,
    220836, 219822, 218811, 217804, 216800, 215800, 214803, 213810, 212820, 211833,
    210851, 209871, 208895, 207923, 206954, 205989, 205027, 204068, 203113, 202161,
    201213, 200269, 199327, 198390, 197455, 196524, 195597, 194673, 193752, 192835,
    191921, 191011, 190104, 189201, 188301, 187404, 186511, 185621, 184734, 183851,
    182971, 182095, 181222, 180352, 179486, 178623, 177763, 176907, 176054, 175205,
    174358, 173515, 172676, 171840, 171007, 170177, 169350, 168527, 167707, 166891,
    166078, 165267, 164461, 163657, 162857, 162060, 161266, 160475, 159688, 158904,
    158123, 157345, 156570, 155799, 155031, 154266, 153504, 152745, 151989, 151237,
    150488, 149741, 148998, 148258, 147521, 146788, 146057, 145329, 144605, 143883,
    143165, 142450, 141737, 141028, 140322, 139619, 138919, 138221, 137527, 136836,
    136148, 135463, 134780, 134101, 133425, 132751, 132081, 131413, 130748, 130087,
    129428, 128772, 128119, 127469, 126821, 126177, 125535, 124897, 124261, 123628,
    122997, 122370, 121745, 121123, 120504, 119888, 119274, 118664, 118056, 117450,
    116848, 116248, 115651, 115057, 114465, 113876, 113290, 112706, 112125, 111547,
    110971, 110398, 109827, 109260, 108694, 108132, 107572, 107015, 106460, 105908,
    105358, 104811, 104266, 103724, 103185, 102648, 102113, 101581, 101052, 100525,
    100000, 99478, 98958, 98441, 97926, 97414, 96904, 96397, 95892, 95389,
    94889, 94391, 93895, 93402, 92911, 92423, 91936, 91453, 90971, 90492,
    90015, 89540, 89068, 88598, 88130, 87665, 87201, 86740, 86281, 85825,
    85370, 84918, 84468, 84020, 83575, 83131, 82690, 82251, 81814, 81379,
    80946, 80516, 80087, 79661, 79236, 78814, 78394, 77976, 77560, 77146,
    76734, 76324, 75916, 75511, 75107, 74705, 74305, 73907, 73511, 73117,
    72725, 72335, 71947, 71561, 71177, 70795, 70415, 70036, 69660, 69285,
    68912, 68541, 68172, 67805, 67440, 67076, 66715, 66355, 65997, 65640,
    65286, 64933, 64583, 64234, 63886, 63541, 63197, 62855, 62515, 62176,
    61839, 61504, 61171, 60839, 60509, 60181, 59854, 59529, 59206, 58884,
    58564, 58246, 57929, 57614, 57301, 56989, 56678, 56370, 56063, 55757,
    55453, 55151, 54850, 54551, 54253, 53957, 53663, 53370, 53078, 52788,
    52499, 52212, 51927, 51643, 51360, 51079, 50799, 50521, 50244, 49969,
    49695, 49423, 49152, 48882, 48614, 48347, 48082, 47818, 47555, 47294,
    47034, 46776, 46519, 46263, 46008, 45755, 45504, 45253, 45004, 44756,
    44510, 44264, 44021, 43778, 43537, 43297, 43058, 42820, 42584, 42349,
    42115
  >>

Expected(d) ==
  IF d >= 0 THEN ExpectedTable[d + 1] ELSE EloUnit - ExpectedTable[1 - d]

\* int(): truncation toward zero.
TruncDiv(n, d) == IF n >= 0 THEN n \div d ELSE -((-n) \div d)

calculate_elo_change(rating1, rating2, winner, k_factor) ==
  LET expected1 == Expected(rating2 - rating1)
      expected2 == Expected(rating1 - rating2)
      actual1 == IF winner = 0 THEN EloUnit \div 2
                 ELSE IF winner = 1 THEN EloUnit ELSE 0
      actual2 == IF winner = 0 THEN EloUnit \div 2
                 ELSE IF winner = 1 THEN 0 ELSE EloUnit
  IN <<TruncDiv(k_factor * (actual1 - expected1), EloUnit),
       TruncDiv(k_factor * (actual2 - expected2), EloUnit)>>

\* 'word' in rank_tier.lower(), for the tiers that get_rank_from_rating and
\* get_rank_tier produce.
RankHas(rank_tier, word) ==
  LET plain == {word \o " I", word \o " II", word \o " III", word}
  IN \/ rank_tier \in plain
     \/ \E k \in DOMAIN TierEmoji : \E n \in plain :
          rank_tier = TierEmoji[k] \o " " \o n

get_k_factor_by_rank(rank_tier, total_ranked_matches) ==
  IF total_ranked_matches < 5 THEN 48
  ELSE IF RankHas(rank_tier, "Bronze") \/ RankHas(rank_tier, "Silver") THEN 40
  ELSE IF RankHas(rank_tier, "Gold") \/ RankHas(rank_tier, "Platinum") THEN 32
  ELSE IF RankHas(rank_tier, "Diamond") \/ RankHas(rank_tier, "Ruby") THEN 24
  ELSE IF RankHas(rank_tier, "Immortal") THEN 16
  ELSE 32

calculate_win_streak_bonus(current_streak, rank_tier, is_winner, total_ranked_matches) ==
  IF ~is_winner THEN 0
  ELSE IF total_ranked_matches < 5 THEN 0
  ELSE IF \/ RankHas(rank_tier, "Platinum") \/ RankHas(rank_tier, "Diamond")
          \/ RankHas(rank_tier, "Ruby") \/ RankHas(rank_tier, "Immortal") THEN 0
  ELSE IF current_streak >= 5 THEN 4
  ELSE IF current_streak >= 3 THEN 2
  ELSE 0

\* check_match_patterns: the rule that makes the pair's match_patterns row
\* suspicious, "" for none and when there is no row.  The rules are tried
\* in the order of the code and the first hit returns; only the frequency
\* hit carries 'recent'.  The quotients are compared as fractions: total /
\* own >= 0.30 and 0.45 <= wins / total <= 0.55.  No statement of the
\* program inserts a match_patterns row; the table holds what the
\* database was set up with.
\* Variant with the frequency rule one match later.
PatternsAboveFive(c, player1_id, player2_id) ==
  LET rows == {r \in match_patterns :
                 r.player_id = player1_id /\ r.opponent_id = player2_id}
      pattern == CHOOSE r \in rows : TRUE
  IN IF rows = {} THEN ""
     ELSE IF pattern.matches_last_24h > SUSPICIOUS_OPPONENT_FREQUENCY
     THEN "frequency"
     ELSE IF /\ c[player1_id].exists /\ c[player1_id].total_matches > 0
             /\ 100 * pattern.total_matches >= 30 * c[player1_id].total_matches
             /\ pattern.total_matches >= 10
     THEN "dominance"
     ELSE IF /\ pattern.total_matches >= 6
             /\ 45 * pattern.total_matches <= 100 * pattern.wins
             /\ 100 * pattern.wins <= 55 * pattern.total_matches
             /\ pattern.total_matches >= 10
     THEN "balance"
     ELSE ""
\* Variant that tries the balance rule before the dominance rule.
PatternsBalanceFirst(c, player1_id, player2_id) ==
  LET rows == {r \in match_patterns :
                 r.player_id = player1_id /\ r.opponent_id = player2_id}
      pattern == CHOOSE r \in rows : TRUE
  IN IF rows = {} THEN ""
     ELSE IF pattern.matches_last_24h >= SUSPICIOUS_OPPONENT_FREQUENCY
     THEN "frequency"
     ELSE IF /\ pattern.total_matches >= 6
             /\ 45 * pattern.total_matches <= 100 * pattern.wins
             /\ 100 * pattern.wins <= 55 * pattern.total_matches
             /\ pattern.total_matches >= 10
     THEN "balance"
     ELSE IF /\ c[player1_id].exists /\ c[player1_id].total_matches > 0
             /\ 100 * pattern.total_matches >= 30 * c[player1_id].total_matches
             /\ pattern.total_matches >= 10
     THEN "dominance"
     ELSE ""
check_match_patterns(c, player1_id, player2_id) ==
  LET rows == {r \in match_patterns :
                 r.player_id = player1_id /\ r.opponent_id = player2_id}
      pattern == CHOOSE r \in rows : TRUE
  IN IF rows = {} THEN ""
     ELSE IF pattern.matches_last_24h >= SUSPICIOUS_OPPONENT_FREQUENCY
     THEN "frequency"
     ELSE IF /\ c[player1_id].exists /\ c[player1_id].total_matches > 0
             /\ 100 * pattern.total_matches >= 30 * c[player1_id].total_matches
             /\ pattern.total_matches >= 10
     THEN "dominance"
     ELSE IF /\ pattern.total_matches >= 6
             /\ 45 * pattern.total_matches <= 100 * pattern.wins
             /\ 100 * pattern.wins <= 55 * pattern.total_matches
             /\ pattern.total_matches >= 10
     THEN "balance"
     ELSE ""

\* detect_win_trading: the last 10 rows of the two players, newest first;
\* True once three neighbouring pairs in a row have different winners, with
\* the number the detail text gives (alternating_count + 1); otherwise
\* False with an empty detail (0).
Between(h, a, b) ==
  SelectSeq(h, LAMBDA r : \/ r.player1_id = a /\ r.player2_id = b
                          \/ r.player1_id = b /\ r.player2_id = a)
NewestFirst(m) == [i \in 1..Len(m) |-> m[Len(m) + 1 - i]]
Limit(m, n) == IF Len(m) <= n THEN m ELSE SubSeq(m, 1, n)
RECURSIVE Alternating(_, _, _)
Alternating(matches, i, alternating_count) ==
  IF i >= Len(matches) THEN <<FALSE, 0>>
  ELSE LET c == IF matches[i].winner_id # matches[i + 1].winner_id
                THEN alternating_count + 1 ELSE 0
       IN IF c >= WIN_TRADING_CONSECUTIVE_THRESHOLD THEN <<TRUE, c + 1>>
          ELSE Alternating(matches, i + 1, c)
\* Variant whose detail gives alternating_count itself.
TradingDetailUncounted(h, player1_id, player2_id) ==
  LET matches == Limit(NewestFirst(Between(h, player1_id, player2_id)), 10)
      found == Alternating(matches, 1, 0)
  IN IF Len(matches) < WIN_TRADING_CONSECUTIVE_THRESHOLD THEN <<FALSE, 0>>
     ELSE IF found[1] THEN <<TRUE, found[2] - 1>> ELSE found
detect_win_trading(h, player1_id, player2_id) ==
  LET matches == Limit(NewestFirst(Between(h, player1_id, player2_id)), 10)
  IN IF Len(matches) < WIN_TRADING_CONSECUTIVE_THRESHOLD THEN <<FALSE, 0>>
     ELSE Alternating(matches, 1, 0)

\* calculate_trust_score: 50, plus 2 per distinct opponent in match_patterns
\* (at most 30), plus the impacts of the uncleared flags or 20 if there is
\* none, minus 25 per flagged pattern, clamped to 0..100 and stored.  Without
\* a row nothing is stored.
RECURSIVE SumImpact(_)
SumImpact(rows) ==
  IF rows = <<>> THEN 0 ELSE Head(rows).trust_score_impact + SumImpact(Tail(rows))
Min(a, b) == IF a <= b THEN a ELSE b
Max(a, b) == IF a >= b THEN a ELSE b
calculate_trust_score(sa, user_id) ==
  LET unique_opponents ==
        Cardinality({r.opponent_id : r \in {x \in match_patterns :
                                               x.player_id = user_id}})
      flags == SelectSeq(sa, LAMBDA r : r.user_id = user_id /\ ~r.cleared)
      flagged_patterns ==
        Cardinality({r \in match_patterns : r.player_id = user_id /\ r.is_flagged})
      final_score ==
        50 + Min(unique_opponents * 2, 30)
           + (IF Len(flags) > 0 THEN SumImpact(flags) ELSE 20)
           - 25 * flagged_patterns
  IN Max(0, Min(100, final_score))
TrustStored(c, sa, user_id) ==
  IF c[user_id].exists
  THEN [c EXCEPT ![user_id].trust_score = calculate_trust_score(sa, user_id)]
  ELSE c

\* flag_suspicious_activity: the row, and the trust score lowered, in one
\* commit of its own.
\* Variant that files the row under the opponent.
FlagOfOpponent(user_id, activity_type, opponent_id, trust_impact) ==
  [user_id |-> opponent_id, activity_type |-> activity_type,
   opponent_id |-> user_id, trust_score_impact |-> trust_impact,
   cleared |-> FALSE]
Flag(user_id, activity_type, opponent_id, trust_impact) ==
  [user_id |-> user_id, activity_type |-> activity_type,
   opponent_id |-> opponent_id, trust_score_impact |-> trust_impact,
   cleared |-> FALSE]
Flagged(c, flags) ==
  [u \in Players |->
     LET mine == SelectSeq(flags, LAMBDA r : r.user_id = u)
     IN IF c[u].exists /\ Len(mine) > 0
        THEN [c[u] EXCEPT !.trust_score = Max(0, c[u].trust_score + SumImpact(mine))]
        ELSE c[u]]

\* record_match_detailed: the row's key is game['id'] if the game has one
\* (no game the handlers build has), else "<creator>_<joiner>", and an
\* insert with a key the table already has does nothing.
HistoryKey(g) == IF "id" \in DOMAIN g THEN g.id ELSE <<g.creator, g.joiner>>
record_match_detailed(h, g, winner_id, change_p1, change_p2) ==
  IF \E i \in 1..Len(h) : h[i].match_id = HistoryKey(g) THEN h
  ELSE Append(h, [match_id |-> HistoryKey(g), player1_id |-> g.creator,
                  player2_id |-> g.joiner, winner_id |-> winner_id,
                  rating_change_p1 |-> change_p1,
                  rating_change_p2 |-> change_p2])

\* The winner as handle_game_end numbers it: 1 the first batter, 2 the
\* chaser, 0 a tie.
WinnerOf(target, current_score) ==
  LET runs_short == target - current_score - 1
      is_chase_successful == current_score >= target
  IN IF runs_short = 0 THEN 0 ELSE IF is_chase_successful THEN 2 ELSE 1

\* An UPDATE that credits the result without counting the match.
UpdatedUncounted(row, change, snapshot_rating, won, lost, new_streak) ==
  [row EXCEPT !.rating = row.rating + change,
              !.rank_tier = get_rank_from_rating(snapshot_rating + change),
              !.wins = row.wins + (IF won THEN 1 ELSE 0),
              !.losses = row.losses + (IF lost THEN 1 ELSE 0),
              !.current_streak = new_streak]

\* The UPDATE of one career row.
Updated(row, change, snapshot_rating, won, lost, new_streak) ==
  [row EXCEPT !.rating = row.rating + change,
              !.rank_tier = get_rank_from_rating(snapshot_rating + change),
              !.total_matches = row.total_matches + 1,
              !.wins = row.wins + (IF won THEN 1 ELSE 0),
              !.losses = row.losses + (IF lost THEN 1 ELSE 0),
              !.current_streak = new_streak]

\* How the database behaves during one settlement: "ok"; "db_down", no
\* connection from the first read on (get_career_stats returns None and the
\* settlement is abandoned); "tx_error", a statement of the career
\* transaction or its commit fails (the connection goes back to the pool,
\* which rolls the transaction back); "p1_no_row" / "p2_no_row", the row of
\* the creator / joiner is gone when its UPDATE runs.
DbModes == {"ok", "db_down", "tx_error", "p1_no_row", "p2_no_row"}

\* game.get('player1_rating') or game.get('p1_rating', 1000): a matchmaking
\* game holds the first key, and a stored 0 counts as missing; a challenge
\* game (negative key) holds the second.
GameRating(g, stored) == IF stored # 0 \/ g.key < 0 THEN stored ELSE 1000

\* get_rating_multiplier, in percent: the band of RATING_MULTIPLIER_BY_MATCHES
\* that holds the row's total_matches, 0.30 without a row.
get_rating_multiplier(c, user_id) ==
  IF ~c[user_id].exists THEN 30
  ELSE IF c[user_id].total_matches <= 5 THEN 30
  ELSE IF c[user_id].total_matches <= 10 THEN 50
  ELSE IF c[user_id].total_matches <= 20 THEN 75
  ELSE 100

\* A settlement that applies the multiplier it has computed.
MultiplierKept(computed) == computed
\* handle_game_end, "NO PENALTIES": multiplier_p1 and multiplier_p2 are set
\* to 1.0 after get_rating_multiplier has returned; trust_mult_p1,
\* trust_mult_p2 and pattern_mult are 1.0 from the start.
FinalMultiplier(computed) == 100

\* A settlement whose loser never loses points.
BaseChangeLoserKept(first_batsman_rating, second_batsman_rating, winner, first_batsman_k, second_batsman_k) ==
  LET twice_avg_k == first_batsman_k + second_batsman_k
      base == calculate_elo_change(first_batsman_rating, second_batsman_rating,
                                   winner, twice_avg_k \div 2)
  IN <<Max(0, TruncDiv(base[1] * 2 * first_batsman_k, twice_avg_k)),
       Max(0, TruncDiv(base[2] * 2 * second_batsman_k, twice_avg_k))>>

\* handle_game_end's base rating changes, in batting order, before the
\* streak bonus: calculate_elo_change with int(avg_k), each change then
\* scaled by the player's own K over avg_k (never 0) and truncated.
BaseChange(first_batsman_rating, second_batsman_rating, winner, first_batsman_k, second_batsman_k) ==
  LET twice_avg_k == first_batsman_k + second_batsman_k
      base == calculate_elo_change(first_batsman_rating, second_batsman_rating,
                                   winner, twice_avg_k \div 2)
  IN <<TruncDiv(base[1] * 2 * first_batsman_k, twice_avg_k),
       TruncDiv(base[2] * 2 * second_batsman_k, twice_avg_k)>>

\* The ranked part of handle_game_end: the tables after it.
Settlement(g, first_batsman_id, target, current_score, db) ==
  LET player1_id == g.creator
      player2_id == g.joiner
      player1_rating == GameRating(g, g.player1_rating)
      player2_rating == GameRating(g, g.player2_rating)
      p1First == first_batsman_id = player1_id
      first_batsman_rating == IF p1First THEN player1_rating ELSE player2_rating
      second_batsman_rating == IF p1First THEN player2_rating ELSE player1_rating
      winner == WinnerOf(target, current_score)
      c0 == WithRow(WithRow(career, player1_id), player2_id)
      player1_stats == c0[player1_id]
      player2_stats == c0[player2_id]
      first_batsman_stats == IF p1First THEN player1_stats ELSE player2_stats
      second_batsman_stats == IF p1First THEN player2_stats ELSE player1_stats
      first_batsman_k == get_k_factor_by_rank(first_batsman_stats.rank_tier,
                           first_batsman_stats.total_ranked_matches)
      second_batsman_k == get_k_factor_by_rank(second_batsman_stats.rank_tier,
                            second_batsman_stats.total_ranked_matches)
      base == BaseChange(first_batsman_rating, second_batsman_rating, winner,
                         first_batsman_k, second_batsman_k)
      rating_change_first ==
        base[1]
        + calculate_win_streak_bonus(first_batsman_stats.current_streak,
            first_batsman_stats.rank_tier, winner = 1,
            first_batsman_stats.total_ranked_matches)
      rating_change_second ==
        base[2]
        + calculate_win_streak_bonus(second_batsman_stats.current_streak,
            second_batsman_stats.rank_tier, winner = 2,
            second_batsman_stats.total_ranked_matches)
      rating_change_p1 == IF p1First THEN rating_change_first ELSE rating_change_second
      rating_change_p2 == IF p1First THEN rating_change_second ELSE rating_change_first
      \* anti-cheat: the result of get_rating_multiplier and the trust and
      \* pattern multipliers are all overwritten with 1.0 before they are
      \* applied (in percent here); only flags and trust are written
      multiplier_p1 == FinalMultiplier(get_rating_multiplier(c0, player1_id))
      multiplier_p2 == FinalMultiplier(get_rating_multiplier(c0, player2_id))
      final_change_p1 == TruncDiv(rating_change_p1 * multiplier_p1, 100)
      final_change_p2 == TruncDiv(rating_change_p2 * multiplier_p2, 100)
      is_suspicious_p1 == check_match_patterns(c0, player1_id, player2_id) # ""
      is_suspicious_p2 == check_match_patterns(c0, player2_id, player1_id) # ""
      is_win_trading == detect_win_trading(match_history_detailed, player1_id, player2_id)[1]
      c1 == TrustStored(TrustStored(c0, suspicious_activities, player1_id),
                        suspicious_activities, player2_id)
      flags ==
        (IF is_suspicious_p1
         THEN <<Flag(player1_id, "opponent_frequency", player2_id, -20)>> ELSE <<>>)
        \o (IF is_suspicious_p2
            THEN <<Flag(player2_id, "opponent_frequency", player1_id, -20)>> ELSE <<>>)
        \o (IF is_win_trading
            THEN <<Flag(player1_id, "win_trading", player2_id, -30),
                   Flag(player2_id, "win_trading", player1_id, -30)>> ELSE <<>>)
      c2 == Flagged(c1, flags)
      winner_id == IF winner = 1 THEN player1_id
                   ELSE IF winner = 2 THEN player2_id ELSE NoPlayer
      history == record_match_detailed(match_history_detailed, g, winner_id,
                                       final_change_p1, final_change_p2)
      \* the career transaction
      new_rating_p1 == player1_rating + final_change_p1
      new_rating_p2 == player2_rating + final_change_p2
      new_streak_p1 == IF winner = 1 THEN player1_stats.current_streak + 1 ELSE 0
      new_streak_p2 == IF winner = 2 THEN player2_stats.current_streak + 1 ELSE 0
      row1 == IF db = "p1_no_row" THEN NoRow
              ELSE Updated(c2[player1_id], final_change_p1, player1_rating,
                           winner = 1, winner = 2, new_streak_p1)
      row2 == IF db = "p2_no_row" THEN NoRow
              ELSE Updated(c2[player2_id], final_change_p2, player2_rating,
                           winner = 2, winner = 1, new_streak_p2)
      result == [player1_id |-> player1_id, player2_id |-> player2_id,
                 winner_id |-> IF winner = 1 THEN player1_id ELSE player2_id,
                 p1_rating_before |-> player1_rating,
                 p1_rating_after |-> new_rating_p1,
                 p1_rating_change |-> final_change_p1,
                 p2_rating_before |-> player2_rating,
                 p2_rating_after |-> new_rating_p2,
                 p2_rating_change |-> final_change_p2]
  IN IF db = "db_down"
     THEN [career |-> career, ranked_matches |-> ranked_matches,
           match_history_detailed |-> match_history_detailed,
           suspicious_activities |-> suspicious_activities,
           k |-> <<0, 0>>, rating_change |-> <<0, 0>>]
     ELSE IF db = "tx_error"
     THEN [career |-> c2, ranked_matches |-> ranked_matches,
           match_history_detailed |-> history,
           suspicious_activities |-> suspicious_activities \o flags,
           k |-> <<first_batsman_k, second_batsman_k>>,
           rating_change |-> <<rating_change_first, rating_change_second>>]
     ELSE [career |-> [c2 EXCEPT ![player1_id] = row1, ![player2_id] = row2],
           ranked_matches |-> Append(ranked_matches, result),
           match_history_detailed |-> history,
           suspicious_activities |-> suspicious_activities \o flags,
           k |-> <<first_batsman_k, second_batsman_k>>,
           rating_change |-> <<rating_change_first, rating_change_second>>]

\* One run of handle_game_end for a ranked game, from the removal of
\* games[str(game['chat_id'])] to the commit of the career transaction;
\* nothing in between suspends.  It runs in the handler of the last ball, so
\* not while another handler runs; a game whose entry is under another key
\* than its chat (a challenge game) stays in games, over, with no keyboard
\* left to play another ball; and a match (toss, choice, two innings
\* with a 3 second animation per ball) outlasts every 3 second delay that was
\* running when it was created.  first: who batted first; innings1: the
\* first innings' score, target one more; current_score: the chaser's score.
HandleGameEnd(g, first, innings1, current_score, db) ==
  \E after \in {Settlement(g, first, innings1 + 1, current_score, db)} :
     /\ games' = {IF x = g THEN [x EXCEPT !.ended = TRUE] ELSE x :
                     x \in {y \in games : y.key # g.chat_id}}
     /\ career' = after.career
     /\ ranked_matches' = after.ranked_matches
     /\ match_history_detailed' = after.match_history_detailed
     /\ suspicious_activities' = after.suspicious_activities
     /\ settled' = [done |-> TRUE, creator |-> g.creator, joiner |-> g.joiner,
                    first |-> first, target |-> innings1 + 1,
                    current_score |-> current_score, db |-> db,
                    k |-> after.k, rating_change |-> after.rating_change,
                    before |-> [career |-> career,
                                ranked_matches |-> ranked_matches,
                                match_history_detailed |-> match_history_detailed],
                    after |-> [career |-> after.career,
                               ranked_matches |-> after.ranked_matches,
                               match_history_detailed |->
                                 after.match_history_detailed]]

GameEnd(g, first, innings1, current_score, db) ==
  /\ handler.op = "idle"
  /\ ~g.ended
  /\ g.racing \cap DelayedTasks = {}
  /\ HandleGameEnd(g, first, innings1, current_score, db)
  /\ UNCHANGED <<ranked_queue, queue_search_tasks, user_queue_cooldown,
                 elapsed, joinSeq, searchTask, periodic, handler, qstate,
                 lastCreate, chVars, challenge_cooldowns, match_patterns, ret>>

\* ----------------------------------------------------------- admin commands
\* suspendrating / unsuspendrating: the flag of an existing row is set.
SetSuspended(p, flag) ==
  /\ handler.op = "idle"
  /\ career[p].exists
  /\ career[p].rating_suspended # flag
  /\ career' = [career EXCEPT ![p].rating_suspended = flag]
  /\ UNCHANGED <<mmVars, tables, chVars, ret>>
SuspendRating(p) == SetSuspended(p, TRUE)
UnsuspendRating(p) == SetSuspended(p, FALSE)

\* /setrating <user_id> <rating>: a rating of 0..10000 is written to an
\* existing row with the tier of get_rank_tier and the high-water mark.
SetPlayerRating(p, new_rating) ==
  /\ handler.op = "idle"
  /\ new_rating >= 0 /\ new_rating <= 10000
  /\ career[p].exists
  /\ career' = [career EXCEPT
                  ![p].rating = new_rating,
                  ![p].rank_tier = get_rank_tier(new_rating),
                  ![p].highest_rating = IF @ >= new_rating THEN @ ELSE new_rating]
  /\ UNCHANGED <<mmVars, tables, chVars, ret>>

\* /clearflag <flag_id>: LEAST(100, trust_score - impact), and the same
\* without the cap.
RestoredUncapped(trust_score, trust_impact) == trust_score - trust_impact
RestoredTrust(trust_score, trust_impact) == Min(100, trust_score - trust_impact)

\* /clearflag <flag_id>: the row is marked cleared, also when it already
\* was, and a negative impact is given back to the user's trust score; an
\* unknown id changes nothing.
ClearFlag(flag_id) ==
  /\ handler.op = "idle"
  /\ flag_id \in 1..Len(suspicious_activities)
  /\ LET row == suspicious_activities[flag_id]
         user_id == row.user_id
         trust_impact == row.trust_score_impact
     IN /\ suspicious_activities' =
             [suspicious_activities EXCEPT ![flag_id].cleared = TRUE]
        /\ career' =
             IF trust_impact < 0 /\ career[user_id].exists
             THEN [career EXCEPT ![user_id].trust_score =
                                   RestoredTrust(@, trust_impact)]
             ELSE career
        /\ ret' = [op |-> "clearflag", user |-> user_id,
                   result |-> trust_impact < 0,
                   before |-> career[user_id].trust_score]
  /\ UNCHANGED <<mmVars, ranked_matches, match_history_detailed, settled,
                 challenge_cooldowns, match_patterns, chVars>>

\* --------------------------------------------------------- specification
Next ==
  \/ \E p \in Players : \E c \in ChatsOf(p) : RankedStart(p, c)
  \/ RankedJoin
  \/ RankedCreate
  \/ \E p \in Players : CancelQueue(p)
  \/ \E p \in Players : SearchStart(p)
  \/ \E p \in Players : SearchTick(p)
  \/ \E j \in JoinIds : PeriodicWake(j)
  \/ \E j \in JoinIds : PeriodicCreate(j)
  \/ CleanupOldGames
  \/ \E p \in Players : Advance(p)
  \/ \E g \in games : \E first \in {g.creator, g.joiner} :
       \E innings1 \in 1..MaxRuns : \E current_score \in 0..(innings1 + 1) :
         \E db \in DbModes : GameEnd(g, first, innings1, current_score, db)

Spec == Init /\ [][Next]_vars

\* ------------------------------------------------------------ challenges
tier_order ==
  <<"Bronze I", "Bronze II", "Bronze III", "Silver I", "Silver II",
    "Silver III", "Gold I", "Gold II", "Gold III", "Platinum I",
    "Platinum II", "Platinum III", "Diamond I", "Diamond II", "Diamond III",
    "Master I", "Master II", "Master III", "Grandmaster I", "Grandmaster II",
    "Grandmaster III", "Immortal I", "Immortal II", "Immortal III">>
TierIndex(tier) == CHOOSE i \in 1..Len(tier_order) : tier_order[i] = tier
Abs(n) == IF n >= 0 THEN n ELSE -n
\* The last two words of a tier: an emoji before a two-word name is dropped,
\* a two-word string is kept whole.
AfterEmoji ==
  [i \in 1..Len(tier_order) |->
     {TierEmoji[k] \o " " \o tier_order[i] : k \in DOMAIN TierEmoji}]
clean_tier(tier) ==
  LET two == {i \in 1..Len(tier_order) : tier \in AfterEmoji[i]}
  IN IF two = {} THEN tier ELSE tier_order[CHOOSE i \in two : TRUE]
\* The distance of the two strings as they are stored, nothing dropped.
TierDistanceRaw(tier1, tier2) ==
  IF /\ \E i \in 1..Len(tier_order) : tier_order[i] = tier1
     /\ \E i \in 1..Len(tier_order) : tier_order[i] = tier2
  THEN Abs(TierIndex(tier1) - TierIndex(tier2))
  ELSE 999
get_rank_tier_distance(tier1, tier2) ==
  LET clean_tier1 == clean_tier(tier1)
      clean_tier2 == clean_tier(tier2)
  IN IF /\ \E i \in 1..Len(tier_order) : tier_order[i] = clean_tier1
        /\ \E i \in 1..Len(tier_order) : tier_order[i] = clean_tier2
     THEN Abs(TierIndex(clean_tier1) - TierIndex(clean_tier2))
     ELSE 999

\* is_player_available: not in a game and not queued; a queue entry older
\* than 5 minutes is deleted on the way (the dict item only) and the player
\* counts as available.
is_player_available(q, g, u) ==
  /\ ~PlayerInGame(g, u)
  /\ InQueue(q, u) => elapsed[u] > STALE_QUEUE_AGE
AfterAvailable(q, g, u) ==
  IF ~PlayerInGame(g, u) /\ InQueue(q, u) /\ elapsed[u] > STALE_QUEUE_AGE
  THEN DictDel(q, u) ELSE q
ElapsedAfter(q2) ==
  [p \in Players |->
     IF InQueue(ranked_queue, p) /\ ~InQueue(q2, p) THEN 0 ELSE elapsed[p]]

HasChallenge(t, ch) == \E r \in t : r.challenge_id = ch
ChallengeRow(t, ch) == CHOOSE r \in t : r.challenge_id = ch
WithStatus(t, ch, status) ==
  {IF r.challenge_id = ch THEN [r EXCEPT !.status = status] ELSE r : r \in t}
Logged(log, ch, from, to) ==
  [log EXCEPT ![ch].writes = Append(@, <<from, to>>)]

\* challenge(): the checks, the INSERT of the row (status 'pending', 60
\* seconds to live), the message with the two buttons, and the start of the
\* timeout task.  sent: whether INSERT and message both succeed; if not, no
\* row is left.
ChallengeCreate(a, b, sent) ==
  /\ handler.op = "idle"
  /\ chSeq < MaxChallenges
  /\ a # b
  /\ LET c0 == WithRow(WithRow(career, a), b)
         challenger_stats == c0[a]
         target_stats == c0[b]
         checked ==
           /\ ~TrustBlocked(challenger_stats)
           /\ ~challenger_stats.rating_suspended
           /\ check_match_patterns(c0, a, b) # "frequency"
           /\ get_rank_tier_distance(challenger_stats.rank_tier,
                                     target_stats.rank_tier) <= 2
         availA == is_player_available(ranked_queue, games, a)
         q1 == AfterAvailable(ranked_queue, games, a)
         availB == is_player_available(q1, games, b)
         q2 == IF ~checked THEN ranked_queue
               ELSE IF ~availA THEN q1 ELSE AfterAvailable(q1, games, b)
         ch == chSeq + 1
     IN /\ career' = c0
        /\ ranked_queue' = q2
        /\ elapsed' = ElapsedAfter(q2)
        /\ IF checked /\ availA /\ availB /\ sent
           THEN /\ pending_challenges' = pending_challenges \cup
                     {[challenge_id |-> ch, challenger_id |-> a, target_id |-> b,
                       challenger_rating |-> challenger_stats.rating,
                       target_rating |-> target_stats.rating,
                       status |-> "pending"]}
                /\ chSeq' = ch
                /\ timeoutTask' = [timeoutTask EXCEPT ![ch] = "sleeping"]
           ELSE UNCHANGED <<pending_challenges, chSeq, timeoutTask>>
  /\ UNCHANGED <<queue_search_tasks, user_queue_cooldown, games, joinSeq,
                 searchTask, periodic, handler, qstate, lastCreate, tables,
                 chExpired, chLog, pressed, ret>>

\* A press of the Accept or Decline button of challenge ch by user u: the
\* handler starts and awaits query.answer().
ChallengePress(ch, op, u) ==
  /\ handler.op = "idle"
  /\ ch <= chSeq
  /\ handler' = [IdleHandler EXCEPT !.op = op, !.pc = "answered", !.user = u,
                                    !.challenge = ch]
  /\ UNCHANGED <<ranked_queue, queue_search_tasks, user_queue_cooldown, games,
                 elapsed, joinSeq, searchTask, periodic, qstate, lastCreate,
                 nonMM>>

\* A variant of the status test below that lets every status through.
AnyStatus(status) == TRUE
\* The handlers go on only if status = 'pending'.
IsPending(status) == status = "pending"

\* The game handle_challenge_accept stores under "challenge_<id>" (keys of
\* this kind are the negative numbers here; chat ids are not negative).
ChallengeKey(ch) == 0 - ch
ChallengeGame(ch, chat_id, row) ==
  [key |-> ChallengeKey(ch), chat_id |-> chat_id, creator |-> row.challenger_id,
   joiner |-> row.target_id, ranked_match |-> TRUE,
   player1_rating |-> row.challenger_rating,
   player2_rating |-> row.target_rating, racing |-> {}, ended |-> FALSE]

\* handle_challenge_accept after query.answer(): one read of the row, the
\* checks, at most one UPDATE of status, and on 'accepted' the game.
\* dbOk: whether a connection is to be had.
ChallengeAccept(dbOk) ==
  /\ handler.op = "accept" /\ handler.pc = "answered"
  /\ LET ch == handler.challenge
         u == handler.user
         found == HasChallenge(pending_challenges, ch)
         row == ChallengeRow(pending_challenges, ch)
         availA == is_player_available(ranked_queue, games, row.challenger_id)
         q1 == AfterAvailable(ranked_queue, games, row.challenger_id)
         availB == is_player_available(q1, games, u)
         outcome ==
           IF ~dbOk THEN "no_db"
           ELSE IF ~found THEN "not_found"
           ELSE IF u # row.target_id THEN "not_for_you"
           ELSE IF ~IsPending(row.status) THEN "not_available"
           ELSE IF ch \in chExpired THEN "expired"
           ELSE IF ~availA THEN "canceled"
           ELSE IF ~availB THEN "busy"
           ELSE "accepted"
         q2 == IF outcome \in {"canceled", "busy", "accepted"}
               THEN (IF availA THEN AfterAvailable(q1, games, u) ELSE q1)
               ELSE ranked_queue
     IN /\ pressed' = [challenge |-> ch, op |-> "accept", user |-> u,
                       outcome |-> outcome]
        /\ ranked_queue' = q2
        /\ elapsed' = ElapsedAfter(q2)
        /\ IF outcome \in {"expired", "canceled", "accepted"}
           THEN /\ pending_challenges' = WithStatus(pending_challenges, ch, outcome)
                /\ chLog' = [Logged(chLog, ch, row.status, outcome) EXCEPT
                               ![ch].games = @ + (IF outcome = "accepted"
                                                  THEN 1 ELSE 0)]
           ELSE UNCHANGED <<pending_challenges, chLog>>
        /\ games' = IF outcome = "accepted"
                    THEN {x \in games : x.key # ChallengeKey(ch)}
                         \cup {ChallengeGame(ch, GroupChat, row)}
                    ELSE games
  /\ handler' = IdleHandler
  /\ UNCHANGED <<queue_search_tasks, user_queue_cooldown, joinSeq, searchTask,
                 periodic, qstate, lastCreate, career, tables, chSeq,
                 timeoutTask, chExpired, ret>>

\* handle_challenge_decline after query.answer().
ChallengeDecline(dbOk) ==
  /\ handler.op = "decline" /\ handler.pc = "answered"
  /\ LET ch == handler.challenge
         u == handler.user
         found == HasChallenge(pending_challenges, ch)
         row == ChallengeRow(pending_challenges, ch)
         outcome ==
           IF ~dbOk THEN "no_db"
           ELSE IF ~found THEN "not_found"
           ELSE IF u # row.target_id THEN "not_for_you"
           ELSE IF ~IsPending(row.status) THEN "not_available"
           ELSE "declined"
     IN /\ pressed' = [challenge |-> ch, op |-> "decline", user |-> u,
                       outcome |-> outcome]
        /\ IF outcome = "declined"
           THEN /\ pending_challenges' = WithStatus(pending_challenges, ch, "declined")
                /\ chLog' = Logged(chLog, ch, row.status, "declined")
           ELSE UNCHANGED <<pending_challenges, chLog>>
  /\ handler' = IdleHandler
  /\ UNCHANGED <<ranked_queue, queue_search_tasks, user_queue_cooldown, games,
                 elapsed, joinSeq, searchTask, periodic, qstate, lastCreate,
                 career, tables, chSeq, timeoutTask, chExpired, ret>>

\* status.startswith('pending_').
StartsWithPending_(status) ==
  \E rest \in {"", "accepted", "declined", "expired", "canceled", "pending"} :
    status = "pending_" \o rest

\* challenge_timeout_task, waking from its 60 second sleep: the row is marked
\* 'expired' and the message edited if its status starts with 'pending_'.
ChallengeTimeout(ch, dbOk) ==
  /\ timeoutTask[ch] = "sleeping"
  /\ ch \in chExpired
  /\ timeoutTask' = [timeoutTask EXCEPT ![ch] = "done"]
  /\ IF /\ dbOk /\ HasChallenge(pending_challenges, ch)
        /\ StartsWithPending_(ChallengeRow(pending_challenges, ch).status)
     THEN /\ pending_challenges' = WithStatus(pending_challenges, ch, "expired")
          /\ chLog' = Logged(chLog, ch,
                             ChallengeRow(pending_challenges, ch).status, "expired")
     ELSE UNCHANGED <<pending_challenges, chLog>>
  /\ UNCHANGED <<mmVars, career, tables, chSeq, chExpired, pressed, ret>>

\* The 60 seconds of a challenge pass (not within one handler run).
ChallengeClock(ch) ==
  /\ handler.op = "idle"
  /\ ch <= chSeq /\ ch \notin chExpired
  /\ chExpired' = chExpired \cup {ch}
  /\ UNCHANGED <<mmVars, career, tables, pending_challenges, chSeq,
                 timeoutTask, chLog, pressed, ret>>

\* SpecChallenge: challenges are issued, their buttons pressed by anybody,
\* any number of times, and their timeout tasks run.
NextChallenge ==
  \/ \E a \in Players : \E b \in Players : \E sent \in BOOLEAN :
       ChallengeCreate(a, b, sent)
  \/ \E ch \in ChallengeIds : \E op \in {"accept", "decline"} :
       \E u \in Players : ChallengePress(ch, op, u)
  \/ \E dbOk \in BOOLEAN : ChallengeAccept(dbOk)
  \/ \E dbOk \in BOOLEAN : ChallengeDecline(dbOk)
  \/ \E ch \in ChallengeIds : \E dbOk \in BOOLEAN : ChallengeTimeout(ch, dbOk)
  \/ \E ch \in ChallengeIds : ChallengeClock(ch)

SpecChallenge == Init /\ [][NextChallenge]_vars

\* ------------------------------------------------ the settlement path
\* SpecSettle follows ranked matches from the queue to their settlement while
\* an admin suspends and unsuspends ratings: /ranked, the periodic search,
\* the end of the game.  The clock stands still (no timeout, no staleness
\* pass) and nobody cancels.
NextSettle ==
  \/ \E p \in Players : \E c \in ChatsOf(p) : RankedStart(p, c)
  \/ RankedJoin
  \/ RankedCreate
  \/ \E j \in JoinIds : PeriodicWake(j)
  \/ \E j \in JoinIds : PeriodicCreate(j)
  \/ \E g \in games : \E first \in {g.creator, g.joiner} :
       \E innings1 \in 1..MaxRuns : \E current_score \in 0..(innings1 + 1) :
         \E db \in DbModes : GameEnd(g, first, innings1, current_score, db)
  \/ \E p \in Players : SuspendRating(p)
  \/ \E p \in Players : UnsuspendRating(p)

SpecSettle == Init /\ [][NextSettle]_vars

\* ------------------------------------------- the queue functions, called
\* directly.  SpecOps applies add_to_ranked_queue, remove_from_ranked_queue,
\* create_ranked_match and the staleness pass in any order and with any
\* arguments, also those no handler passes, and records each call in ret.
opsFrame == <<user_queue_cooldown, periodic, handler, dbVars, qstate, lastCreate>>

\* Ratings passed to a direct add: the stored one, or one a range higher, so
\* that a second add for a queued player carries other data than the entry.
AddRatings(u) == {career[u].rating, career[u].rating + RANKED_RATING_RANGE}

\* add_to_ranked_queue(u, _, r, tier, message); dbOk as in RankedJoin.
OpAdd(u, r, dbOk) ==
  /\ joinSeq < MaxJoins
  /\ LET added == ~InQueue(ranked_queue, u)
     IN /\ ranked_queue' = AddToRankedQueue(ranked_queue, u, r,
                                            get_rank_from_rating(r), joinSeq + 1)
        /\ ret' = [op |-> "add", user |-> u,
                   result |-> AddReturns(ranked_queue, u, dbOk),
                   before |-> ranked_queue]
        /\ joinSeq' = joinSeq + 1
        /\ elapsed' = IF added THEN [elapsed EXCEPT ![u] = 0] ELSE elapsed
  /\ UNCHANGED <<queue_search_tasks, searchTask, games, opsFrame>>

\* remove_from_ranked_queue(u).
OpRemove(u) ==
  /\ ranked_queue' = QueueWithout(ranked_queue, {u})
  /\ queue_search_tasks' = queue_search_tasks \ {u}
  /\ searchTask' = TasksCancelled(searchTask, queue_search_tasks, {u})
  /\ elapsed' = ElapsedReset(elapsed, {u})
  /\ ret' = [op |-> "remove", user |-> u, result |-> TRUE,
             before |-> ranked_queue]
  /\ UNCHANGED <<games, joinSeq, opsFrame>>

\* The player dict a caller builds for u: from the entry if there is one.
PlayerData(u) ==
  IF InQueue(ranked_queue, u) THEN SnapshotOf(QEntry(ranked_queue, u))
  ELSE Snapshot(u, career[u].rating, career[u].rank_tier, 0)

\* create_ranked_match(player1_data, player2_data, chat_id).
OpCreate(u1, u2, c) ==
  /\ u1 # u2
  /\ CreateCore(PlayerData(u1), PlayerData(u2), c, {})
  /\ ret' = [op |-> "create", user |-> u1,
             result |-> CreateResult(games, u1, u2, c) = "created",
             before |-> ranked_queue]
  /\ UNCHANGED <<joinSeq, opsFrame>>

\* del games[...] of a finished game.
OpDelGame(g) ==
  /\ games' = {x \in games : x.key # g.chat_id}
  /\ ret' = NoRet
  /\ UNCHANGED <<ranked_queue, queue_search_tasks, searchTask, elapsed, joinSeq,
                 opsFrame>>

OpCleanup == CleanupPass /\ ret' = NoRet /\ UNCHANGED qstate
OpAdvance(p) == AdvanceStep(p) /\ ret' = NoRet /\ UNCHANGED qstate

NextOps ==
  \/ \E u \in Players : \E r \in AddRatings(u) : \E dbOk \in BOOLEAN :
       OpAdd(u, r, dbOk)
  \/ \E u \in Players : OpRemove(u)
  \/ \E u1 \in Players : \E u2 \in Players : \E c \in ChatsOf(u1) : OpCreate(u1, u2, c)
  \/ \E g \in games : OpDelGame(g)
  \/ OpCleanup
  \/ \E p \in Players : OpAdvance(p)

SpecOps == Init /\ [][NextOps]_vars

\* ---------------------------------------------------------- casual games
\* str(user_id): handle_match_type and handle_join keep the player's id as a
\* string, the matchmaking and the challenges keep it as an integer, and in
\* Python no string equals an integer.  The string of an id is written here
\* as the negated id, which equals no player id and not NoPlayer.
str(user_id) == 0 - user_id

CasualGames == {x \in games : ~x.ranked_match}
\* game_id "<abs(chat_id)>_<milliseconds>": never the str(chat_id) key of a
\* ranked match nor the "challenge_<id>" key of a challenge game.
CasualKey == NumPlayers + 1 + Cardinality(CasualGames)
\* A game as handle_match_type stores it: no 'joiner' entry yet.
CasualGameAt(key, chat_id, creator) ==
  [key |-> key, chat_id |-> chat_id, creator |-> str(creator),
   joiner |-> NoPlayer, ranked_match |-> FALSE,
   player1_rating |-> 0, player2_rating |-> 0, racing |-> {},
   ended |-> FALSE]
CasualGame(chat_id, creator) == CasualGameAt(CasualKey, chat_id, creator)

casualFrame ==
  <<ranked_queue, queue_search_tasks, user_queue_cooldown, elapsed, joinSeq,
    searchTask, periodic, handler, qstate, lastCreate, dbVars, ret>>

\* handle_match_type, "pvp": the player who pressed the button becomes the
\* creator of a new game in that chat.  Nothing is checked about the games
\* or the queue the player is already in.
HandleMatchType(p, chat_id) ==
  /\ handler.op = "idle"
  /\ Cardinality(CasualGames) < MaxCasual
  /\ games' = games \cup {CasualGame(chat_id, p)}
  /\ UNCHANGED casualFrame

\* handle_join on the join button of game g: refused for the creator and
\* for a game that has a joiner; otherwise the presser becomes the joiner.
HandleJoin(p, g) ==
  /\ handler.op = "idle"
  /\ g \in CasualGames
  /\ games' = IF str(p) = g.creator \/ g.joiner # NoPlayer THEN games
              ELSE (games \ {g}) \cup {[g EXCEPT !.joiner = str(p)]}
  /\ UNCHANGED casualFrame

NextCasual ==
  \/ \E p \in Players : \E c \in ChatsOf(p) : RankedStart(p, c)
  \/ RankedJoin
  \/ RankedCreate
  \/ \E j \in JoinIds : PeriodicWake(j)
  \/ \E j \in JoinIds : PeriodicCreate(j)
  \/ \E p \in Players : \E c \in ChatsOf(p) : HandleMatchType(p, c)
  \/ \E p \in Players : \E g \in games : HandleJoin(p, g)

SpecCasual == Init /\ [][NextCasual]_vars

\* ------------------------------------ find_ranked_opponent, called directly
\* SpecFind starts from any queue, set of games and cooldown table out of
\* small domains and calls find_ranked_opponent with any searcher; ret
\* records the call and the dict (or None, NoOpp) it returned.
FindPlayers == 1..MaxFindPlayers
\* Ratings of queued entries and of searchers: 200 apart at the edge of the
\* range, 100 apart inside it, 300 apart outside it.
FindRatings == {1000, 1300}
SearcherRatings == {1000, 1100, 1200}

FindEntry(u, r, t) ==
  [user_id |-> u, rating |-> r, rank_tier |-> get_rank_from_rating(r),
   message |-> t, joined_at |-> t]
\* Every queue over some of the players, in every order of joining.
FindQueues ==
  UNION {{{FindEntry(u, rt[u], at[u]) : u \in S} :
            rt \in [S -> FindRatings],
            at \in {f \in [S -> 1..Cardinality(S)] :
                      \A a \in S : \A b \in S : f[a] = f[b] => a = b}} :
         S \in SUBSET FindPlayers}
\* A ranked match of players 3 and 4, a casual game created by player 2.
FindGames ==
  SUBSET {RankedGame(GroupChat, Snapshot(3, 1300, "Gold I", 0),
                     Snapshot(4, 1300, "Gold I", 0), {}),
          CasualGameAt(MaxFindPlayers + 1, GroupChat, 2)}
\* Cooldown rows: player 1 towards player 2, player 3 towards player 1.
FindCooldowns == SUBSET {<<1, 2>>, <<3, 1>>}

InitFind ==
  /\ ranked_queue \in FindQueues
  /\ games \in FindGames
  /\ challenge_cooldowns \in FindCooldowns
  /\ match_patterns = {}
  /\ career = [p \in Players |-> CareerRow(InitRating(p))]
  /\ InitCommon

\* find_ranked_opponent(user_id, user_rating)
OpFind(user_id, user_rating, dbOk) ==
  /\ ret' = [op |-> "find", user |-> user_id, rating |-> user_rating,
             dbOk |-> dbOk, before |-> ranked_queue,
             result |-> find_ranked_opponent(ranked_queue, games, user_id,
                                             user_rating, dbOk)]
  /\ UNCHANGED <<mmVars, dbVars>>

NextFind ==
  \E u \in FindPlayers : \E r \in SearcherRatings : \E dbOk \in BOOLEAN :
    OpFind(u, r, dbOk)

SpecFind == InitFind /\ [][NextFind]_vars

\* --------------------------------------------- access to ranked play
\* SpecGate starts from career rows with a trust score just below and at
\* SUSPEND_TRUST_SCORE and runs /ranked and /challenge against the admin's
\* /suspendrating and /unsuspendrating.
GateTrust == {SUSPEND_TRUST_SCORE - 1, SUSPEND_TRUST_SCORE}
InitGate ==
  /\ ranked_queue = {}
  /\ games = {}
  /\ career \in {[p \in Players |->
                    [CareerRow(InitRating(p)) EXCEPT !.trust_score = tr[p]]] :
                  tr \in [Players -> GateTrust]}
  /\ challenge_cooldowns = {}
  /\ match_patterns = {}
  /\ InitCommon

NextGate ==
  \/ \E p \in Players : \E c \in ChatsOf(p) : RankedStart(p, c)
  \/ RankedJoin
  \/ RankedCreate
  \/ \E a \in Players : \E b \in Players : \E sent \in BOOLEAN :
       ChallengeCreate(a, b, sent)
  \/ \E p \in Players : SuspendRating(p)
  \/ \E p \in Players : UnsuspendRating(p)

SpecGate == InitGate /\ [][NextGate]_vars

\* --------------------------------------- settlement after an admin write
\* SpecAdmin: players are matched by /ranked and their games settled while
\* an admin sets ratings with /setrating, at any moment between two handlers.
AdminRatings == {0}

NextAdmin ==
  \/ \E p \in Players : \E c \in ChatsOf(p) : RankedStart(p, c)
  \/ RankedJoin
  \/ RankedCreate
  \/ \E g \in games : \E first \in {g.creator, g.joiner} :
       \E innings1 \in 1..MaxRuns : \E current_score \in 0..(innings1 + 1) :
         GameEnd(g, first, innings1, current_score, "ok")
  \/ \E p \in Players : \E new_rating \in AdminRatings :
       SetPlayerRating(p, new_rating)

SpecAdmin == Init /\ [][NextAdmin]_vars

\* ------------------------------------- the trust functions, called directly
\* SpecTrust applies calculate_trust_score and flag_suspicious_activity to
\* any player in any order, with the two impacts handle_game_end passes,
\* while an admin clears flags, the same flag any number of times.
MaxFlags == 3
FlagKinds ==
  {<<"opponent_frequency", -20>>, <<"win_trading", -30>>}
Opponent(u) == (u % NumPlayers) + 1

\* calculate_trust_score(u); dbOk: whether a connection is to be had.
OpTrust(u, dbOk) ==
  /\ career' = IF dbOk THEN TrustStored(career, suspicious_activities, u)
               ELSE career
  /\ ret' = [op |-> "trust", user |-> u, result |-> dbOk,
             before |-> career[u].trust_score]
  /\ UNCHANGED <<mmVars, tables, chVars>>

\* flag_suspicious_activity(u, activity_type, opponent, details, impact).
OpFlag(u, kind) ==
  /\ Len(suspicious_activities) < MaxFlags
  /\ LET flag == Flag(u, kind[1], Opponent(u), kind[2])
     IN /\ suspicious_activities' = Append(suspicious_activities, flag)
        /\ career' = Flagged(career, <<flag>>)
  /\ ret' = [op |-> "flag", user |-> u, result |-> TRUE,
             before |-> career[u].trust_score]
  /\ UNCHANGED <<mmVars, ranked_matches, match_history_detailed, settled,
                 challenge_cooldowns, match_patterns, chVars>>

NextTrust ==
  \/ \E u \in Players : \E dbOk \in BOOLEAN : OpTrust(u, dbOk)
  \/ \E u \in Players : \E kind \in FlagKinds : OpFlag(u, kind)
  \/ \E flag_id \in 1..MaxFlags : ClearFlag(flag_id)

SpecTrust == Init /\ [][NextTrust]_vars

\* ------------------------------------------ challenges among busy players
\* SpecAvail: players start and join casual games while challenges are
\* issued, accepted by anybody, and expire.
NextAvail ==
  \/ \E p \in Players : \E c \in ChatsOf(p) : HandleMatchType(p, c)
  \/ \E p \in Players : \E g \in games : HandleJoin(p, g)
  \/ \E a \in Players : \E b \in Players : ChallengeCreate(a, b, TRUE)
  \/ \E ch \in ChallengeIds : \E u \in Players : ChallengePress(ch, "accept", u)
  \/ \E dbOk \in BOOLEAN : ChallengeAccept(dbOk)
  \/ \E ch \in ChallengeIds : ChallengeClock(ch)

SpecAvail == Init /\ [][NextAvail]_vars

\* ------------------------------------------- careers over several matches
\* SpecCareer: players challenge each other, the target accepts, and the
\* challenge games are settled one after another with every outcome of the
\* game and of the database; the hourly pass removes the games that are over.
NextCareer ==
  \/ \E a \in Players : \E b \in Players : ChallengeCreate(a, b, TRUE)
  \/ \E r \in pending_challenges :
       ChallengePress(r.challenge_id, "accept", r.target_id)
  \/ ChallengeAccept(TRUE)
  \/ \E g \in games : \E first \in {g.creator, g.joiner} :
       \E innings1 \in 1..MaxRuns : \E current_score \in 0..(innings1 + 1) :
         \E db \in DbModes : GameEnd(g, first, innings1, current_score, db)
  \/ CleanupEndedGames

SpecCareer == Init /\ [][NextCareer]_vars

\* ------------------------------------------------- the rank-distance gate
\* SpecTier: the players' career rows hold a rating of one of four bands,
\* with the tier of either table; get_rank_tier_distance is applied to the
\* tiers of any two players and /challenge is sent between them.
TierRatings == {1000, 1400, 1600, 5300}
StoredTiers(r) == {get_rank_from_rating(r), get_rank_tier(r)}

InitTier ==
  /\ ranked_queue = {}
  /\ games = {}
  /\ career \in {[p \in Players |->
                    [CareerRow(rt[p][1]) EXCEPT !.rank_tier = rt[p][2]]] :
                  rt \in [Players -> {<<r, t>> \in TierRatings \X
                                         UNION {StoredTiers(x) : x \in TierRatings} :
                                        t \in StoredTiers(r)}]}
  /\ challenge_cooldowns = {}
  /\ match_patterns = {}
  /\ InitCommon

OpDistance(a, b) ==
  /\ ret' = [op |-> "distance", user |-> a,
             result |-> get_rank_tier_distance(career[a].rank_tier,
                                               career[b].rank_tier),
             before |-> {}, tier1 |-> career[a].rank_tier,
             tier2 |-> career[b].rank_tier]
  /\ UNCHANGED <<mmVars, dbVars>>

NextTier ==
  \/ \E a \in Players : \E b \in Players : OpDistance(a, b)
  \/ \E a \in Players : \E b \in Players : ChallengeCreate(a, b, TRUE)

SpecTier == InitTier /\ [][NextTier]_vars


\* ----------------------------------------- the rating and anti-cheat rules,
\* called directly.  SpecRules applies get_rank_from_rating,
\* calculate_win_streak_bonus and check_match_patterns with any arguments
\* and records each result in ret; SpecTrading does the same with
\* record_match_detailed and detect_win_trading, from empty tables.
\* The match_patterns table is given (nothing in the program writes it): no
\* row, or one row of player 1 against player 2; player 1's career row has
\* played none, 10 or 40 matches.
MaxHistory == 4
PlayedCounts == {0, 10, 40}
PatternRows == {r \in [player_id : {1}, opponent_id : {2}, total_matches : {3, 10}, wins : {0, 5}, matches_last_24h : {4, 5}, is_flagged : {FALSE}] : r.wins <= r.total_matches}
BandEdges == UNION {{t - 1, t} : t \in {0, 200, 400, 600, 800, 1000, 1200, 1400, 1600, 1800, 2000, 2200, 2400, 2600, 2800, 3000, 3300, 3600, 4000, 4400, 4800, 5200, 5600, 6000}} \cup {-200, 6400}
BonusTiers == {get_rank_from_rating(r) : r \in {-1, 0, 1000, 1400, 1800, 2400, 3000, 4000, 5200}}

InitRules ==
  /\ ranked_queue = {}
  /\ games = {}
  /\ career \in {[p \in Players |-> [CareerRow(InitRating(p)) EXCEPT !.total_matches = IF p = 1 THEN n ELSE 0]] : n \in PlayedCounts}
  /\ challenge_cooldowns = {}
  /\ match_patterns \in {{}} \cup {{r} : r \in PatternRows}
  /\ InitCommon

rulesFrame == <<mmVars, career, ranked_matches, suspicious_activities, settled, challenge_cooldowns, match_patterns, chVars>>

\* get_rank_from_rating(rating).
OpTier(rating) ==
  /\ ret' = [op |-> "tier", user |-> NoPlayer,
             result |-> get_rank_from_rating(rating), before |-> {},
             rating |-> rating]
  /\ UNCHANGED <<rulesFrame, match_history_detailed>>

\* calculate_win_streak_bonus(current_streak, rank_tier, is_winner,
\* total_ranked_matches).
OpBonus(current_streak, rank_tier, is_winner, total_ranked_matches) ==
  /\ ret' = [op |-> "bonus", user |-> NoPlayer,
             result |-> calculate_win_streak_bonus(current_streak, rank_tier,
                          is_winner, total_ranked_matches),
             before |-> {}, current_streak |-> current_streak,
             rank_tier |-> rank_tier, is_winner |-> is_winner,
             total_ranked_matches |-> total_ranked_matches]
  /\ UNCHANGED <<rulesFrame, match_history_detailed>>

\* check_match_patterns(player1_id, player2_id).
OpPatterns(player1_id, player2_id) ==
  /\ ret' = [op |-> "patterns", user |-> player1_id,
             result |-> check_match_patterns(career, player1_id, player2_id),
             before |-> {}, opponent |-> player2_id]
  /\ UNCHANGED <<rulesFrame, match_history_detailed>>

\* record_match_detailed(game, winner_id) for a game that carries an 'id'.
OpRecord(a, b, winner_id) ==
  /\ Len(match_history_detailed) < MaxHistory
  /\ match_history_detailed' =
       record_match_detailed(match_history_detailed,
         [creator |-> a, joiner |-> b,
          id |-> <<a, b, Len(match_history_detailed) + 1>>], winner_id, 0, 0)
  /\ ret' = NoRet
  /\ UNCHANGED rulesFrame

\* detect_win_trading(player1_id, player2_id).
OpTrading(player1_id, player2_id) ==
  /\ ret' = [op |-> "trading", user |-> player1_id,
             result |-> detect_win_trading(match_history_detailed,
                                           player1_id, player2_id),
             before |-> match_history_detailed, opponent |-> player2_id]
  /\ UNCHANGED <<rulesFrame, match_history_detailed>>

NextRules ==
  \/ \E rating \in BandEdges : OpTier(rating)
  \/ \E s \in {2, 3, 4, 5} : \E t \in BonusTiers : \E w \in BOOLEAN :
       \E n \in {4, 5} : OpBonus(s, t, w, n)
  \/ \E a \in {1, 2} : \E b \in {1, 2} \ {a} : OpPatterns(a, b)

SpecRules == InitRules /\ [][NextRules]_vars

NextTrading ==
  \/ \E w \in {NoPlayer, 1, 2} : OpRecord(1, 2, w)
  \/ \E a \in {1, 2} : \E b \in {1, 2} \ {a} : OpTrading(a, b)

SpecTrading == Init /\ [][NextTrading]_vars


\* ------------------------------------------------ a season of two players.
\* SpecSeason plays ranked matches of players 1 and 2 one after the other:
\* create_ranked_match with the players' stored ratings, then the end of the
\* game with any batting order and result, the database answering, up to
\* MaxSettled settlements.
MaxSettled == 6
NextSeason ==
  \/ Len(ranked_matches) < MaxSettled /\ OpCreate(1, 2, GroupChat)
  \/ \E g \in games : \E first \in {g.creator, g.joiner} : \E innings1 \in 1..MaxRuns : \E current_score \in 0..(innings1 + 1) : GameEnd(g, first, innings1, current_score, "ok")

SpecSeason == Init /\ [][NextSeason]_vars


\* ------------------------------------------- a settlement with detections.
\* SpecFlagged settles one ranked match of players 1 and 2 (nothing is
\* recorded or created after the settlement) over tables that
\* make the detectors report: the match_patterns table as in InitRules, and
\* match_history_detailed rows written by record_match_detailed for games
\* that carry an 'id'.
NextFlagged ==
  \/ \E w \in {1, 2} : ~settled.done /\ OpRecord(1, 2, w)
  \/ \E u1 \in {1, 2} : \E u2 \in {1, 2} : ~settled.done /\ OpCreate(u1, u2, GroupChat)
  \/ \E g \in games : \E first \in {g.creator, g.joiner} : \E innings1 \in 1..MaxRuns : \E current_score \in 0..(innings1 + 1) : \E db \in DbModes : GameEnd(g, first, innings1, current_score, db)

SpecFlagged == InitRules /\ [][NextFlagged]_vars


\* --------------------------------------------- the base rating changes.
\* SpecElo applies handle_game_end's base rating changes to snapshot
\* ratings, outcomes and K-factors of every band, and records each result
\* in ret.
EloRatings == {1000, 1200, 1560}
KFactors == {16, 24, 32, 40, 48}

OpBase(rating1, rating2, winner, k1, k2) ==
  /\ ret' = [op |-> "base", user |-> NoPlayer,
             result |-> BaseChange(rating1, rating2, winner, k1, k2),
             before |-> {}, ratings |-> <<rating1, rating2>>,
             winner |-> winner, k |-> <<k1, k2>>]
  /\ UNCHANGED <<rulesFrame, match_history_detailed>>

NextElo ==
  \E rating1 \in EloRatings : \E rating2 \in EloRatings : \E winner \in {0, 1, 2} : \E k1 \in KFactors : \E k2 \in KFactors : OpBase(rating1, rating2, winner, k1, k2)

SpecElo == Init /\ [][NextElo]_vars


\* ------------------------------------------------- the staleness sweep.
\* SpecSweep: the queue flow of Spec without the end of games, under the
\* scheduling of the event loop: a handler that has started runs to its
\* end, a task that was created takes its steps, the clock goes on, and
\* cleanup_old_games, started once by main() and looping for ever (its
\* try/except is inside the loop), makes its pass every 300 seconds.  What
\* users do (/ranked, cancelling) is not required to happen.
NextSweep ==
  \/ \E p \in Players : \E c \in ChatsOf(p) : RankedStart(p, c)
  \/ RankedJoin
  \/ RankedCreate
  \/ \E p \in Players : CancelQueue(p)
  \/ \E p \in Players : SearchStart(p)
  \/ \E p \in Players : SearchTick(p)
  \/ \E j \in JoinIds : PeriodicWake(j)
  \/ \E j \in JoinIds : PeriodicCreate(j)
  \/ CleanupOldGames
  \/ \E p \in Players : Advance(p)

SweepScheduling ==
  /\ WF_vars(RankedJoin)
  /\ WF_vars(RankedCreate)
  /\ \A p \in Players : WF_vars(SearchStart(p))
  /\ \A p \in Players : WF_vars(SearchTick(p))
  /\ \A j \in JoinIds : WF_vars(PeriodicWake(j))
  /\ \A j \in JoinIds : WF_vars(PeriodicCreate(j))
  /\ \A p \in Players : WF_vars(Advance(p))
  /\ WF_vars(CleanupOldGames)

SpecSweep == Init /\ [][NextSweep]_vars /\ SweepScheduling


\* ------------------------------------- a settlement after earlier flags.
\* SpecAudit is SpecFlagged with the database answering and with
\* suspicious_activities rows of player 1 filed before the match, so that
\* the settlement meets every anti-cheat state: a lowered trust score, an
\* unresolved flag, a pattern or win-trading report, any experience band.
NextAudit ==
  \/ \E w \in {1, 2} : ~settled.done /\ OpRecord(1, 2, w)
  \/ \E kind \in FlagKinds : ~settled.done /\ suspicious_activities = <<>> /\ OpFlag(1, kind)
  \/ \E u1 \in {1, 2} : \E u2 \in {1, 2} : ~settled.done /\ OpCreate(u1, u2, GroupChat)
  \/ \E g \in games : \E first \in {g.creator, g.joiner} : \E innings1 \in 1..MaxRuns : \E current_score \in 0..(innings1 + 1) : GameEnd(g, first, innings1, current_score, "ok")

SpecAudit == InitRules /\ [][NextAudit]_vars


\* -------------------------------- create_ranked_match in a busy chat.
\* SpecPair starts where SpecFind starts (any queue of up to four players,
\* the group chat with or without the ranked match of players 3 and 4) and
\* calls create_ranked_match for players 1 and 2 with the group chat's id,
\* as a searcher does whose 3 second delay ends after another pair's match
\* was created in the same chat.
NextPair ==
  \E u1 \in {1, 2} : \E u2 \in {1, 2} : OpCreate(u1, u2, GroupChat)

SpecPair == InitFind /\ [][NextPair]_vars

\* ================================================================ claims
\* The games a player is creator or joiner of, under either form of the id.
GamesOf(p) ==
  {g \in games : g.creator \in {p, str(p)} \/ g.joiner \in {p, str(p)}}

\* C1: when several searchers (the /ranked handler, periodic tasks) have
\* selected the same queued opponent, at most one ranked match with that
\* opponent is created: nobody is matched a second time without joining
\* again, and every player is creator or joiner of at most one active game.
C1_OneMatchPerOpponent ==
  \A p \in Players :
    /\ qstate[p] # "REMATCHED"
    /\ Cardinality(GamesOf(p)) <= 1
    /\ \A g \in games : g.creator # g.joiner

\* C2: after cancel_queue or the 120 second timeout told a player that the
\* search is over, no ranked match with that player is created unless they
\* join the queue again.
C2_NoMatchAfterExit == \A p \in Players : qstate[p] # "MATCHED_AFTER_EXIT"

\* A player is no longer held by any searcher and has no queue entry.
Forgotten(p) ==
  /\ ~InQueue(ranked_queue, p)
  /\ p \notin {handler.me.user_id, handler.opp.user_id}
  /\ \A j \in JoinIds : p \notin {periodic[j].me.user_id, periodic[j].opp.user_id}

\* C8: a player whose add_to_ranked_queue succeeded is told how the search
\* ended (matched, timed out, cancelled): their entry never disappears
\* silently with nothing left that would still tell them.
C8_NoSilentExit ==
  \A p \in Players : ~(qstate[p] \in {"SWEPT", "DROPPED"} /\ Forgotten(p))

\* C9: after any sequence of enqueue, dequeue, match creation, timeout
\* eviction and staleness pass the queue holds at most one entry per player.
C9_OneEntryPerPlayer ==
  \A e1, e2 \in ranked_queue : e1.user_id = e2.user_id => e1 = e2

\* C9 witness: add_to_ranked_queue has just been called for a player who
\* already had an entry, with other data than the entry holds.
C9_Witness ==
  /\ ret.op = "add" /\ InQueue(ret.before, ret.user)
  /\ Cardinality(ranked_queue) >= 2
  /\ QEntry(ranked_queue, ret.user).joined_at < joinSeq

\* C10: add_to_ranked_queue for a player who is already queued returns False
\* and leaves that player's entry and every other entry as they were.
C10_RejectedAddChangesNothing ==
  (ret.op = "add" /\ InQueue(ret.before, ret.user)) =>
     (ret.result = FALSE /\ ranked_queue = ret.before)

\* C10 witness: such a call, made while another player is queued as well and
\* with a rating other than the one in the caller's entry.
C10_Witness ==
  /\ ret.op = "add" /\ InQueue(ret.before, ret.user) /\ ~ret.result
  /\ \E e \in ranked_queue : e.user_id # ret.user
  /\ \E e \in ranked_queue : e.user_id = ret.user /\ e.rating # career[e.user_id].rating

\* ---- settlement claims: the latest settlement, from the record of it
SettledRowBefore(p) == get_career_stats(settled.before.career, p)
SettledRowAfter(p) == settled.after.career[p]
\* The match was counted in p's career row.
CareerCommitted(p) ==
  /\ SettledRowAfter(p).exists
  /\ SettledRowAfter(p).total_matches = SettledRowBefore(p).total_matches + 1
ResultCommitted ==
  Len(settled.after.ranked_matches) = Len(settled.before.ranked_matches) + 1
HistoryCommitted ==
  Len(settled.after.match_history_detailed)
    = Len(settled.before.match_history_detailed) + 1

\* C3: a ranked settlement is all-or-nothing, also when a persistence step
\* fails or a career UPDATE matches no row: both players' career rows and
\* the match-result records (ranked_matches, match_history_detailed) are
\* committed, or none of them is.
C3_AllOrNothing ==
  settled.done =>
    \/ /\ CareerCommitted(settled.creator) /\ CareerCommitted(settled.joiner)
       /\ ResultCommitted /\ HistoryCommitted
    \/ /\ ~CareerCommitted(settled.creator) /\ ~CareerCommitted(settled.joiner)
       /\ ~ResultCommitted /\ ~HistoryCommitted

\* C4: a player whose rating_suspended flag is set when their ranked match
\* is settled keeps their stored rating, whatever the result.
C4_SuspendedRatingUnchanged ==
  \A p \in Players :
    (/\ settled.done /\ p \in {settled.creator, settled.joiner}
     /\ settled.before.career[p].exists
     /\ settled.before.career[p].rating_suspended
     /\ SettledRowAfter(p).exists)
    => SettledRowAfter(p).rating = settled.before.career[p].rating

\* The winner by the rules of the game: the chaser if the chase succeeded,
\* else the first batter.
SettledChaser ==
  IF settled.first = settled.creator THEN settled.joiner ELSE settled.creator
ActualWinner ==
  IF settled.current_score >= settled.target THEN SettledChaser ELSE settled.first
ActualLoser ==
  IF ActualWinner = settled.creator THEN settled.joiner ELSE settled.creator
Decisive == settled.current_score # settled.target - 1

\* C5: after a committed settlement of a decisive ranked match the actual
\* winner has one more win and a streak one longer, the other player one
\* more loss and streak 0, the stored match-result records name the actual
\* winner, and the winner's rating change is not negative.
C5_ActualWinnerCredited ==
  (settled.done /\ settled.db = "ok" /\ Decisive) =>
    LET w == ActualWinner
        l == ActualLoser
        result == settled.after.ranked_matches[Len(settled.after.ranked_matches)]
        history == settled.after.match_history_detailed
    IN /\ SettledRowAfter(w).wins = SettledRowBefore(w).wins + 1
       /\ SettledRowAfter(w).current_streak = SettledRowBefore(w).current_streak + 1
       /\ SettledRowAfter(l).losses = SettledRowBefore(l).losses + 1
       /\ SettledRowAfter(l).current_streak = 0
       /\ result.winner_id = w
       /\ \A i \in 1..Len(history) :
            history[i].match_id = <<settled.creator, settled.joiner>>
              => history[i].winner_id = w
       /\ SettledRowAfter(w).rating - SettledRowBefore(w).rating >= 0

\* C6: the status of a challenge is written at most once by the accept and
\* decline handlers and the timeout task together, and only when it is
\* 'pending'; at most one game is made per challenge.
C6_StatusWriteOnce ==
  \A ch \in ChallengeIds :
    /\ Len(chLog[ch].writes) <= 1
    /\ \A i \in 1..Len(chLog[ch].writes) :
         /\ chLog[ch].writes[i][1] = "pending"
         /\ chLog[ch].writes[i][2] \in {"accepted", "declined", "expired", "canceled"}
    /\ chLog[ch].games <= 1
    /\ Cardinality({g \in games : g.key = ChallengeKey(ch)}) <= 1

\* C6 witness: the target pressed a button of a challenge they had already
\* accepted, after its timeout task has run, and was turned away.
C6_Witness ==
  /\ pressed.outcome = "not_available"
  /\ HasChallenge(pending_challenges, pressed.challenge)
  /\ ChallengeRow(pending_challenges, pressed.challenge).status = "accepted"
  /\ timeoutTask[pressed.challenge] = "done"
  /\ chLog[pressed.challenge].games = 1

\* C7: once the timeout task of a challenge has run, 60 seconds after its
\* creation, the challenge is no longer pending: it was accepted, declined
\* or cancelled before, or the task has marked it expired.
C7_ExpiredAfterTimeout ==
  \A ch \in ChallengeIds :
    (timeoutTask[ch] = "done" /\ HasChallenge(pending_challenges, ch))
      => ChallengeRow(pending_challenges, ch).status # "pending"

\* ------------------------------------------------- find_ranked_opponent
\* The entries the recorded call did not skip.
RetEligible == Eligible(ret.before, games, ret.user, ret.rating, ret.dbOk)
RatingGap(e) ==
  IF e.rating >= ret.rating THEN e.rating - ret.rating ELSE ret.rating - e.rating

\* C11: find_ranked_opponent returns the eligible entry with the smallest
\* joined_at, whatever the ratings of the entries that joined later.
C11_FirstJoinedReturned ==
  (ret.op = "find" /\ RetEligible # {}) =>
    \E e \in RetEligible :
      /\ ret.result = SnapshotOf(e)
      /\ \A x \in RetEligible : e.joined_at <= x.joined_at

\* C11 witness: three eligible entries, the one that joined first is
\* returned although one that joined later is nearer in rating.
C11_Witness ==
  /\ ret.op = "find"
  /\ Cardinality(RetEligible) >= 3
  /\ \E e \in RetEligible : \E x \in RetEligible :
       /\ ret.result = SnapshotOf(e)
       /\ e.joined_at < x.joined_at
       /\ RatingGap(x) < RatingGap(e)

\* The four filters as the specification words them: not the searcher, not
\* creator or joiner of an active game, no active cooldown row in either
\* direction, queued rating within RANKED_RATING_RANGE of the searcher's.
PassesFilters(e) ==
  /\ e.user_id # ret.user
  /\ GamesOf(e.user_id) = {}
  /\ <<ret.user, e.user_id>> \notin challenge_cooldowns
  /\ <<e.user_id, ret.user>> \notin challenge_cooldowns
  /\ ret.rating - RANKED_RATING_RANGE <= e.rating
  /\ e.rating <= ret.rating + RANKED_RATING_RANGE

\* C12: find_ranked_opponent returns only an entry that passes the four
\* filters, and returns None exactly when no queued entry passes them.
C12_OnlyFilteredReturned ==
  ret.op = "find" =>
    IF ret.result = NoOpp
    THEN \A e \in ret.before : ~PassesFilters(e)
    ELSE \E e \in ret.before : ret.result = SnapshotOf(e) /\ PassesFilters(e)

\* ---------------------------------------------------- the timeout watch
\* C13: a turn of update_search_message that finds the entry 120 seconds
\* old or older removes it and tells the owner; a turn that finds it 119
\* seconds old (or younger) leaves the queue as it is.
C13_EvictedFrom120 ==
  [][\A p \in Players :
       (SearchTick(p) /\ InQueue(ranked_queue, p)) =>
         IF elapsed[p] >= 120
         THEN /\ ~InQueue(ranked_queue', p)
              /\ p \notin queue_search_tasks'
              /\ qstate'[p] = "TIMED_OUT"
         ELSE /\ ranked_queue' = ranked_queue
              /\ qstate'[p] = qstate[p]]_vars

\* C13 witness: one player has been timed out by the watch while another,
\* 119 seconds in the queue, is still being watched and still queued.
C13_Witness ==
  \E p \in Players : \E o \in Players :
    /\ qstate[p] = "TIMED_OUT"
    /\ ~InQueue(ranked_queue, p)
    /\ InQueue(ranked_queue, o) /\ elapsed[o] = 119 /\ searchTask[o] = "loop"

\* ------------------------------------------- removal and the player's loops
\* C14: once remove_from_ranked_queue has returned for a player (they were
\* told the search was cancelled or had timed out, and have not joined
\* again), none of that player's own periodic_matchmaking_check loops goes
\* on to create a match.
C14_NoMatchByRemovedPlayersLoop ==
  [][\A j \in JoinIds :
       (PeriodicCreate(j) /\ games' # games) =>
         qstate[periodic[j].user] \notin {"CANCELED", "TIMED_OUT"}]_vars

\* ------------------------------------------------ access to ranked play
\* Whether the stored row bars the player from ranked play.
Barred(p) ==
  career[p].trust_score < 10 \/ career[p].rating_suspended

\* C15: a player whose stored trust score is below 10 or whose rating is
\* suspended when they send the command is not put into the ranked queue by
\* /ranked and gets no pending challenge created by /challenge.  (No
\* other handler runs between the command and its effect, so the row at
\* the step that adds is the row at the time of the request.)
C15_BarredPlayersKeptOut ==
  [][/\ \A p \in Players :
          (~InQueue(ranked_queue, p) /\ InQueue(ranked_queue', p)) => ~Barred(p)
     /\ \A r \in pending_challenges' \ pending_challenges :
          ~Barred(r.challenger_id)]_vars

\* C15 witness: a player with trust score 9 and a suspended player are both
\* outside the queue and without a challenge of theirs, while a player in
\* good standing is queued and a challenge of such a player exists.
C15_Witness ==
  /\ \E p \in Players : \E o \in Players :
       /\ career[p].trust_score < 10 /\ ~career[p].rating_suspended
       /\ career[o].rating_suspended /\ career[o].trust_score >= 10
       /\ \A b \in {p, o} :
            /\ ~InQueue(ranked_queue, b)
            /\ \A r \in pending_challenges : r.challenger_id # b
  /\ \E r \in pending_challenges : ~Barred(r.challenger_id)
  /\ \E e \in ranked_queue : ~Barred(e.user_id)

\* C16: after every settlement the stored rank_tier of each player whose row
\* the settlement wrote is the tier that the rating table gives for the
\* player's stored rating, also when the stored rating differs from the
\* snapshot taken at queue-join time and when it is 0 or negative.
C16_TierOfStoredRating ==
  settled.done =>
    \A p \in {settled.creator, settled.joiner} :
      CareerCommitted(p) =>
        SettledRowAfter(p).rank_tier
          = get_rank_from_rating(SettledRowAfter(p).rating)

\* C17: in every reachable state each career record has total_matches, wins
\* and losses >= 0 and wins + losses <= total_matches, whatever settlements
\* with win, loss and draw outcomes came before.
C17_CountersConsistent ==
  \A p \in Players :
    /\ career[p].total_matches >= 0
    /\ career[p].wins >= 0
    /\ career[p].losses >= 0
    /\ career[p].wins + career[p].losses <= career[p].total_matches

\* Two settlements have counted for one player, a win and a draw, and
\* another player carries a loss.
C17_Witness ==
  \E p \in Players : \E q \in Players \ {p} :
    /\ career[p].total_matches = 2
    /\ career[p].wins = 1 /\ career[p].losses = 0
    /\ career[q].losses >= 1

\* C18: highest_rating is a high-water mark: in every state reached by
\* ranked settlements it is at least the player's stored rating (and no
\* settlement lowers it).
C18_HighestAtLeastRating ==
  \A p \in Players :
    career[p].exists => career[p].highest_rating >= career[p].rating

\* C19: the stored trust_score of every player stays within 0..100 after
\* any sequence of calculate_trust_score recomputations,
\* flag_suspicious_activity penalties and /clearflag restorations.
C19_TrustWithinBounds ==
  \A p \in Players :
    career[p].trust_score >= 0 /\ career[p].trust_score <= 100

\* A clearing has just met the cap of 100 while penalties hold another
\* player at the floor of 0.
C19_Witness ==
  /\ ret.op = "clearflag" /\ ret.result
  /\ career[ret.user].trust_score = 100
  /\ ret.before > 100 - 20
  /\ \E q \in Players \ {ret.user} :
       /\ career[q].trust_score = 0
       /\ \E i \in 1..Len(suspicious_activities) :
            suspicious_activities[i].user_id = q

\* A game under way (both players in, not over) that p plays in, or an
\* entry of p in the queue.
Busy(q, p) ==
  \/ \E g \in GamesOf(p) : g.joiner # NoPlayer /\ ~g.ended
  \/ InQueue(q, p)

\* C20: a pending challenge is created only if neither the challenger nor
\* the target is in an active game or in the ranked queue at that moment;
\* and a challenge game is created only by an accept of the target, on a
\* challenge that is pending and unexpired and becomes accepted, with both
\* players still available.
C20_ChallengeOnlyAmongAvailable ==
  [][/\ \A r \in pending_challenges' :
         ~HasChallenge(pending_challenges, r.challenge_id) =>
           /\ ~Busy(ranked_queue', r.challenger_id)
           /\ ~Busy(ranked_queue', r.target_id)
     /\ \A g \in games' \ games :
         g.key < 0 =>
           LET ch == 0 - g.key
               row == ChallengeRow(pending_challenges, ch)
           IN /\ handler.op = "accept" /\ handler.user = row.target_id
              /\ row.status = "pending"
              /\ ch \notin chExpired
              /\ ChallengeRow(pending_challenges', ch).status = "accepted"
              /\ ~Busy(ranked_queue', row.challenger_id)
              /\ ~Busy(ranked_queue', row.target_id)]_vars

\* ---- tier distance
\* The places in the ordered tier list that a stored tier names: the place
\* of the name itself, or of the name after an emoji.
TierSpellings ==
  [i \in 1..Len(tier_order) |->
     {tier_order[i]} \cup {TierEmoji[k] \o " " \o tier_order[i] :
                             k \in DOMAIN TierEmoji}]
TierPlaces(tier) == {i \in 1..Len(tier_order) : tier \in TierSpellings[i]}
PlaceDistance(tier1, tier2) ==
  IF TierPlaces(tier1) = {} \/ TierPlaces(tier2) = {} THEN 999
  ELSE Abs((CHOOSE i \in TierPlaces(tier1) : TRUE)
           - (CHOOSE i \in TierPlaces(tier2) : TRUE))

PlatinumUp(rank_tier) ==
  \E w \in {"Platinum", "Diamond", "Master", "Grandmaster", "Immortal"} :
    RankHas(rank_tier, w)

\* C23: calculate_win_streak_bonus returns 0 unless the player is the
\* winner, has played 5 ranked matches and is in a tier below Platinum; then
\* 4 for a streak of 5 or more, 2 for a streak of 3 or 4, else 0.  For
\* Platinum, Diamond, Master, Grandmaster and Immortal the bonus is 0.
C23_StreakBonusBelowPlatinum ==
  ret.op = "bonus" =>
    ret.result =
      IF ret.is_winner /\ ret.total_ranked_matches >= 5
         /\ ~PlatinumUp(ret.rank_tier)
      THEN (IF ret.current_streak >= 5 THEN 4
            ELSE IF ret.current_streak >= 3 THEN 2 ELSE 0)
      ELSE 0

\* C24: the rating-to-tier function of the settlement maps every negative
\* rating to the lowest tier of the band table, Bronze I.
C24_NegativeRatingLowestTier ==
  ret.op = "tier" /\ ret.rating < 0 => ret.result = tier_order[1]

\* The match_patterns row that the latest check_match_patterns call read.
PatternRead ==
  CHOOSE r \in match_patterns :
    r.player_id = ret.user /\ r.opponent_id = ret.opponent
HasPatternRead ==
  /\ ret.op = "patterns"
  /\ \E r \in match_patterns :
       r.player_id = ret.user /\ r.opponent_id = ret.opponent

\* The three rules as conditions on the row and the player's career row.
FrequencyHolds == PatternRead.matches_last_24h >= 5
DominanceHolds ==
  /\ career[ret.user].total_matches > 0
  /\ PatternRead.total_matches >= 10
  /\ 10 * PatternRead.total_matches >= 3 * career[ret.user].total_matches
BalanceHolds ==
  /\ PatternRead.total_matches >= 10
  /\ 20 * PatternRead.wins >= 9 * PatternRead.total_matches
  /\ 20 * PatternRead.wins <= 11 * PatternRead.total_matches

\* C27: the frequency rule fires exactly when matches_last_24h >= 5: the
\* call reports suspicious with the frequency reason at 5, and at 4, when
\* neither the dominance nor the balance rule holds, it reports nothing.
C27_FrequencyFromFive ==
  HasPatternRead =>
    /\ ret.result = "frequency" <=> PatternRead.matches_last_24h >= 5
    /\ PatternRead.matches_last_24h = 4 /\ ~DominanceHolds /\ ~BalanceHolds
         => ret.result = ""
C27_Witness ==
  /\ HasPatternRead
  /\ PatternRead.matches_last_24h = 5
  /\ ret.result = "frequency"
C27_WitnessFour ==
  /\ HasPatternRead
  /\ PatternRead.matches_last_24h = 4
  /\ ret.result = ""

\* C28: check_match_patterns returns the reason of the first rule that
\* holds in the order frequency, dominance, balance, and reports nothing
\* only when none of the three holds.
C28_FirstRuleInOrder ==
  HasPatternRead =>
    ret.result = IF FrequencyHolds THEN "frequency"
                 ELSE IF DominanceHolds THEN "dominance"
                 ELSE IF BalanceHolds THEN "balance" ELSE ""
C28_Witness ==
  /\ HasPatternRead
  /\ ~FrequencyHolds /\ DominanceHolds /\ BalanceHolds
  /\ ret.result = "dominance"

\* C29: the dominance rule fires whenever the frequency rule did not, the
\* player's own total of ranked matches is 10 or more and the pair's total
\* is 30% or more of it.
C29_DominanceFromOwnTen ==
  HasPatternRead =>
    (/\ ~FrequencyHolds
     /\ career[ret.user].total_matches >= 10
     /\ 10 * PatternRead.total_matches >= 3 * career[ret.user].total_matches
     => ret.result = "dominance")

\* The winners of the rows that the latest detect_win_trading call read,
\* newest first.
WinnersRead ==
  LET m == NewestFirst(Between(ret.before, ret.user, ret.opponent))
  IN [i \in 1..Len(m) |-> m[i].winner_id]

BandK(rank_tier) ==
  IF RankHas(rank_tier, "Bronze") \/ RankHas(rank_tier, "Silver") THEN 40
  ELSE IF RankHas(rank_tier, "Gold") \/ RankHas(rank_tier, "Platinum") THEN 32
  ELSE IF RankHas(rank_tier, "Diamond") \/ RankHas(rank_tier, "Ruby") THEN 24
  ELSE IF RankHas(rank_tier, "Immortal") THEN 16
  ELSE 32
\* The two players of the latest settlement in batting order.
SettledBatsman(i) == IF i = 1 THEN settled.first ELSE SettledChaser

\* C22: the K-factor a settlement uses for a player is 48 while the player
\* has fewer than 5 settled ranked matches, and from the fifth on the value
\* of the band of the player's current tier.
C22_BandKAfterPlacement ==
  (settled.done /\ settled.db = "ok") =>
    \A i \in {1, 2} :
      LET row == SettledRowBefore(SettledBatsman(i))
      IN settled.k[i] = IF row.total_matches < 5 THEN 48
                        ELSE BandK(row.rank_tier)

\* C25: when a player with no prior match wins the first ranked match, the
\* settlement uses K = 48 for them and the change applied to the stored
\* rating is the K-driven change times the 0.30 multiplier of the first
\* matches.
C25_FirstWinScaled ==
  (settled.done /\ settled.db = "ok" /\ Decisive) =>
    \A i \in {1, 2} :
      LET p == SettledBatsman(i)
          won == (i = 2) = (settled.current_score >= settled.target)
      IN (won /\ SettledRowBefore(p).total_matches = 0) =>
           /\ settled.k[i] = 48
           /\ SettledRowAfter(p).rating - SettledRowBefore(p).rating
                = TruncDiv(30 * settled.rating_change[i], 100)

\* The suspicious_activities rows a step adds.
NewFlags ==
  {suspicious_activities'[i] :
     i \in (Len(suspicious_activities) + 1)..Len(suspicious_activities')}
FlagAdded(user_id, activity_type, opponent_id) ==
  \E f \in NewFlags : /\ f.user_id = user_id /\ f.opponent_id = opponent_id
                      /\ f.activity_type = activity_type

\* C26: detection does not block settlement.  When, in a settlement with
\* the database answering, check_match_patterns reports for either player
\* or detect_win_trading reports, a suspicious_activities row is inserted
\* for each player reported (both players for win trading), and both career
\* rows have the match counted and the rating changed by the change that
\* the match result row records.
C26_FlaggedSettlementCompletes ==
  [][(settled' # settled /\ settled'.db = "ok") =>
       LET a == settled'.creator
           b == settled'.joiner
           c0 == WithRow(WithRow(career, a), b)
           suspicious_a == check_match_patterns(c0, a, b) # ""
           suspicious_b == check_match_patterns(c0, b, a) # ""
           trading == detect_win_trading(match_history_detailed, a, b)[1]
           result == ranked_matches'[Len(ranked_matches')]
       IN (suspicious_a \/ suspicious_b \/ trading) =>
            /\ suspicious_a => FlagAdded(a, "opponent_frequency", b)
            /\ suspicious_b => FlagAdded(b, "opponent_frequency", a)
            /\ trading => /\ FlagAdded(a, "win_trading", b)
                          /\ FlagAdded(b, "win_trading", a)
            /\ Len(ranked_matches') = Len(ranked_matches) + 1
            /\ career'[a].total_matches = c0[a].total_matches + 1
            /\ career'[b].total_matches = c0[b].total_matches + 1
            /\ career'[a].rating = c0[a].rating + result.p1_rating_change
            /\ career'[b].rating = c0[b].rating + result.p2_rating_change
            /\ result.p1_rating_change = -result.p2_rating_change
    ]_vars
C26_Witness ==
  /\ settled.done /\ settled.db = "ok"
  /\ CareerCommitted(settled.creator) /\ CareerCommitted(settled.joiner)
  /\ \E i \in 1..Len(suspicious_activities) :
       suspicious_activities[i].activity_type = "opponent_frequency"
  /\ \E i \in 1..Len(suspicious_activities) :
       suspicious_activities[i].activity_type = "win_trading"

\* C31: with equal snapshot ratings and equal K-factors the base rating
\* changes of a settlement (after the average-K computation and the
\* per-player rescaling, before any streak bonus) are exact negatives of
\* each other when the match is decisive, and both 0 when it is a draw.
C31_EqualPlayersZeroSum ==
  (/\ ret.op = "base"
   /\ ret.ratings[1] = ret.ratings[2]
   /\ ret.k[1] = ret.k[2])
  => /\ ret.result[1] = 0 - ret.result[2]
     /\ ret.winner = 0 => ret.result = <<0, 0>>
     /\ ret.winner = 1 => ret.result[1] > 0
     /\ ret.winner = 2 => ret.result[2] > 0

\* A decisive match between equal players has been rated: the winner's
\* half of K.
C31_Witness ==
  /\ ret.op = "base"
  /\ ret.ratings[1] = ret.ratings[2]
  /\ ret.k = <<40, 40>>
  /\ ret.winner = 2
  /\ ret.result = <<-20, 20>>

\* The match_patterns row of player a against opponent b, as a set.
PatternRowsOf(a, b) ==
  {r \in match_patterns : r.player_id = a /\ r.opponent_id = b}

\* C32: after a ranked match of A and B has been settled and committed, the
\* match_patterns rows of (A, B) and of (B, A) both exist, count that
\* match, and agree on total_matches.
C32_PatternRowsBothWays ==
  (settled.done /\ settled.db = "ok")
  => \E r1 \in PatternRowsOf(settled.creator, settled.joiner) :
       \E r2 \in PatternRowsOf(settled.joiner, settled.creator) :
         /\ r1.total_matches >= 1
         /\ r1.total_matches = r2.total_matches

\* C33: when the persistence of a ranked match's settlement fails (no
\* connection, or an error in the career transaction), the match is still in
\* games when handle_game_end reports the failure; nothing changes games
\* between the report and the end of the handler.
C33_FailedMatchStillInGames ==
  [][(/\ settled' # settled
      /\ settled'.done
      /\ settled'.db \in {"db_down", "tx_error"})
     => \E g \in games' : g.creator = settled'.creator /\ g.joiner = settled'.joiner]_vars

\* C34: every queue entry is eventually removed: an entry whose timeout
\* loop is missing or has ended grows older than 300 seconds and the
\* staleness pass of cleanup_old_games deletes it and cancels its
\* registered search task, so no player stays queued for ever.
C34_EveryEntryLeaves ==
  \A p \in Players : InQueue(ranked_queue, p) ~> ~InQueue(ranked_queue, p)

\* The pass has removed a player's stale entry, and no search task of
\* theirs is registered or alive.
C34_Witness ==
  \E p \in Players :
    /\ qstate[p] = "SWEPT"
    /\ ~InQueue(ranked_queue, p)
    /\ p \notin queue_search_tasks
    /\ searchTask[p] = "none"

\* The suspicious_activities rows a step files under a player, in order.
NewFlagsOf(p) ==
  SelectSeq(SubSeq(suspicious_activities', Len(suspicious_activities) + 1, Len(suspicious_activities')), LAMBDA r : r.user_id = p)

C36_DrawRecordsNoWinner ==
  (settled.done /\ settled.db = "ok") =>
    LET draw == WinnerOf(settled.target, settled.current_score) = 0
        result == settled.after.ranked_matches[Len(settled.after.ranked_matches)]
    IN /\ draw <=> settled.current_score = settled.target - 1
       /\ draw =>
            /\ \A p \in {settled.creator, settled.joiner} :
                 /\ SettledRowAfter(p).total_matches = SettledRowBefore(p).total_matches + 1
                 /\ SettledRowAfter(p).wins = SettledRowBefore(p).wins
                 /\ SettledRowAfter(p).losses = SettledRowBefore(p).losses
                 /\ SettledRowAfter(p).current_streak = 0
            /\ settled.rating_change[1] = 0 - settled.rating_change[2]
            /\ result.winner_id \notin {settled.creator, settled.joiner}

\* C37: whenever add_to_ranked_queue returns False, for whatever reason,
\* the in-memory queue is what it was before the call.
C37_FailedAddLeavesQueue ==
  (ret.op = "add" /\ ~ret.result) => ranked_queue = ret.before

\* C38: whenever create_ranked_match returns None, the ranked queue is what
\* it was before the call: neither player has been removed from it.
C38_NoMatchNoRemoval ==
  (ret.op = "create" /\ ~ret.result) => ranked_queue = ret.before

\* C39: no player is at the same time in the ranked queue and creator or
\* joiner of an active ranked match.
C39_QueuedPlayersNotInMatch ==
  \A p \in Players :
    InQueue(ranked_queue, p) =>
      ~\E g \in games : /\ g.ranked_match /\ ~g.ended
                         /\ (g.creator = p \/ g.joiner = p)
====
